---- MODULE Spec2Model ----
(***************************************************************************)
(* Model of graphgarden-web (packages/graphgarden-web/src/index.ts):       *)
(* buildGraph turns the site's own protocol file into a graphology graph,  *)
(* fetchFriendGraphs fetches one file per friend origin concurrently and   *)
(* merges the validated ones into that graph.                              *)
(*                                                                         *)
(* URLs.  A reference (the string handed to `new URL`) is a record         *)
(* [kind, origin, path]:                                                   *)
(*   kind "abs"   an absolute URL, e.g. "https://a.test" or                *)
(*                "https://a.test/p"; path "" is the form without a        *)
(*                trailing slash, which the URL parser normalises to "/"   *)
(*   kind "rel"   a site-relative path such as "/" or "/p"                 *)
(*   kind "empty" the empty string ""                                      *)
(*   kind "bad"   a string no base can repair, e.g. "https://"             *)
(* A parsed URL (the .href used as node key) is the pair <<origin, path>>. *)
(***************************************************************************)
EXTENDS Integers, Sequences, FiniteSets, TLC

\* ------------------------------------------------------------------ bounds
\* Longest nodes list of a protocol file.
MaxNodes == 2
\* Longest edges list of a protocol file.
MaxEdges == 2
\* Longest friends list of the self file.
MaxFriends == 2
\* Longest value of an attribute of the element, in symbols.
MaxAttrLen == 2

\* --------------------------------------------------------------- constants
WELL_KNOWN_PATH == "/.well-known/graphgarden.json"

\* Sizes are kept in tenths (nodeSize 4 -> 40, edgeSize 0.5 -> 5).
DEFAULT_CONFIG ==
  [ localNodeColor  |-> "#6366f1",
    friendNodeColor |-> "#f59e0b",
    localEdgeColor  |-> "#94a3b8",
    friendEdgeColor |-> "#fbbf24",
    labelColor      |-> "#334155",
    nodeSize        |-> 40,
    edgeSize        |-> 5,
    labelSize       |-> 120,
    iterations      |-> 2000 ]

\* ----------------------------------------------------------- resolveConfig
\* The element's numeric attributes and the config fields they set.
AttributeNames == {"node-size", "edge-size", "label-size", "iterations"}

ConfigField(name) ==
  IF name = "node-size" THEN "nodeSize"
  ELSE IF name = "edge-size" THEN "edgeSize"
  ELSE IF name = "label-size" THEN "labelSize"
  ELSE "iterations"

\* An attribute value is a string over these symbols, the word Infinity
\* counting for one.
AttrSymbols == {" ", "-", "+", "0", "5", "x", "Infinity"}
Digits == {"0", "5"}
DigitValue(c) == IF c = "5" THEN 5 ELSE 0

\* getAttribute(name): null, or the value.
NoAttribute == [present |-> FALSE, raw |-> << >>]
Attribute(raw) == [present |-> TRUE, raw |-> raw]
NoAttributes == [name \in AttributeNames |-> NoAttribute]

\* JavaScript numbers, the finite ones in tenths.
NaN == [kind |-> "NaN", value |-> 0]
Infinite(sign) == [kind |-> "Infinity", value |-> sign]
Finite(tenths) == [kind |-> "finite", value |-> tenths]

RECURSIVE TrimStart(_)
TrimStart(raw) ==
  IF raw # << >> /\ Head(raw) = " " THEN TrimStart(Tail(raw)) ELSE raw

RECURSIVE TrimEnd(_)
TrimEnd(raw) ==
  IF raw # << >> /\ raw[Len(raw)] = " "
    THEN TrimEnd(SubSeq(raw, 1, Len(raw) - 1)) ELSE raw

RECURSIVE DecimalValue(_)
DecimalValue(digits) ==
  IF digits = << >> THEN 0
  ELSE 10 * DecimalValue(SubSeq(digits, 1, Len(digits) - 1))
       + DigitValue(digits[Len(digits)])

\* An unsigned numeric literal: Infinity or decimal digits; anything else
\* is NaN.
UnsignedNumber(text) ==
  IF text = <<"Infinity">> THEN Infinite(1)
  ELSE IF text # << >> /\ \A i \in 1..Len(text) : text[i] \in Digits
    THEN Finite(10 * DecimalValue(text))
  ELSE NaN

Negated(n) == IF n.kind = "NaN" THEN n ELSE [n EXCEPT !.value = 0 - @]

\* Number(raw): white space around the literal is dropped, the empty
\* string is 0, a sign may precede the literal.
ToNumber(raw) ==
  LET text == TrimEnd(TrimStart(raw)) IN
  IF text = << >> THEN Finite(0)
  ELSE IF Head(text) = "-" THEN Negated(UnsignedNumber(Tail(text)))
  ELSE IF Head(text) = "+" THEN UnsignedNumber(Tail(text))
  ELSE UnsignedNumber(text)

IsFinite(n) == n.kind = "finite"

\* Mutant of Attr: every finite number is taken.
AttrAnyFinite(attributes, name, fallback) ==
  IF ~attributes[name].present THEN fallback
  ELSE LET n == ToNumber(attributes[name].raw) IN
       IF IsFinite(n) THEN n.value ELSE fallback

\* attr(name, fallback) of resolveConfig (index.ts 317-322)
Attr(attributes, name, fallback) ==
  IF ~attributes[name].present THEN fallback
  ELSE LET n == ToNumber(attributes[name].raw) IN
       IF IsFinite(n) /\ n.value > 0 THEN n.value ELSE fallback

\* resolveConfig() (index.ts 313-335) of an element with these attributes
\* and none of the custom properties: each colour is its default.
ResolveConfig(attributes) ==
  [ localNodeColor  |-> DEFAULT_CONFIG.localNodeColor,
    friendNodeColor |-> DEFAULT_CONFIG.friendNodeColor,
    localEdgeColor  |-> DEFAULT_CONFIG.localEdgeColor,
    friendEdgeColor |-> DEFAULT_CONFIG.friendEdgeColor,
    labelColor      |-> DEFAULT_CONFIG.labelColor,
    nodeSize        |-> Attr(attributes, "node-size", DEFAULT_CONFIG.nodeSize),
    edgeSize        |-> Attr(attributes, "edge-size", DEFAULT_CONFIG.edgeSize),
    labelSize       |-> Attr(attributes, "label-size", DEFAULT_CONFIG.labelSize),
    iterations      |-> Attr(attributes, "iterations", DEFAULT_CONFIG.iterations) ]

LocalOrigin == "https://local.test"
FriendOriginSet == {"https://a.test", "https://b.test"}
AllOrigins == {LocalOrigin} \cup FriendOriginSet

\* ------------------------------------------------------------- references
Abs(o, p) == [kind |-> "abs", origin |-> o, path |-> p]
Rel(p) == [kind |-> "rel", origin |-> "", path |-> p]
EmptyRef == [kind |-> "empty", origin |-> "", path |-> ""]
BadRef == [kind |-> "bad", origin |-> "", path |-> ""]

\* What `new URL` throws is modelled as this value in place of an href.
InvalidUrl == <<"TypeError", "Invalid URL">>

\* new URL(ref): an absolute reference parses, "" path becoming "/".
ParseAbsolute(ref) ==
  IF ref.kind = "abs"
    THEN <<ref.origin, IF ref.path = "" THEN "/" ELSE ref.path>>
    ELSE InvalidUrl

\* new URL(ref, base).href
NewURL(ref, base) ==
  LET b == ParseAbsolute(base) IN
  IF b = InvalidUrl THEN InvalidUrl
  ELSE IF ref.kind = "abs" THEN ParseAbsolute(ref)
  ELSE IF ref.kind = "rel" THEN <<b[1], ref.path>>
  ELSE IF ref.kind = "empty" THEN b
  ELSE InvalidUrl

\* new URL(ref).origin
OriginOf(ref) ==
  LET u == ParseAbsolute(ref) IN
  IF u = InvalidUrl THEN "TypeError" ELSE u[1]

\* ------------------------------------------------------------- graphology
\* new Graph(): `instance` is the identity of the object, which no method of
\* the graph changes.
EmptyGraph == [instance |-> 1, nodes |-> << >>, edges |-> << >>, attrs |-> << >>]

\* Mutant of AssignAttrs: the new attributes replace the old ones.
ReplaceAttrs(old, attrs) == attrs

\* Object.assign(old, attrs) on attribute records.
AssignAttrs(old, attrs) ==
  [k \in DOMAIN old \cup DOMAIN attrs |->
     IF k \in DOMAIN attrs THEN attrs[k] ELSE old[k]]

HasNode(g, key) == key \in DOMAIN g.nodes

HasDirectedEdge(g, s, t) == <<s, t>> \in DOMAIN g.edges

\* graph.mergeNode(key, attrs): create the node, or merge attrs into it.
MergeNode(g, key, attrs) ==
  [g EXCEPT !.nodes =
     [u \in DOMAIN g.nodes \cup {key} |->
        IF u = key
          THEN (IF HasNode(g, key) THEN AssignAttrs(g.nodes[key], attrs) ELSE attrs)
          ELSE g.nodes[u]]]

\* Mutant of MergeDirectedEdge: addDirectedEdge on a multigraph, a second
\* edge between the same nodes is added next to the first.
AddDirectedEdge(g, s, t, attrs) ==
  LET key == IF HasDirectedEdge(g, s, t)
               THEN <<s, t, Cardinality(DOMAIN g.edges)>> ELSE <<s, t>>
  IN [g EXCEPT !.edges =
        [e \in DOMAIN g.edges \cup {key} |-> IF e = key THEN attrs ELSE g.edges[e]]]

\* Mutant of MergeDirectedEdge: an edge that exists is left as it is.
MergeDirectedEdgeKeepsFirst(g, s, t, attrs) ==
  [g EXCEPT !.edges =
     [e \in DOMAIN g.edges \cup {<<s, t>>} |->
        IF e = <<s, t>> /\ ~HasDirectedEdge(g, s, t) THEN attrs ELSE g.edges[e]]]

\* graph.mergeDirectedEdge(s, t, attrs): create the edge, or merge attrs into it.
MergeDirectedEdge(g, s, t, attrs) ==
  [g EXCEPT !.edges =
     [e \in DOMAIN g.edges \cup {<<s, t>>} |->
        IF e = <<s, t>>
          THEN (IF HasDirectedEdge(g, s, t)
                  THEN AssignAttrs(g.edges[e], attrs) ELSE attrs)
          ELSE g.edges[e]]]

Order(g) == Cardinality(DOMAIN g.nodes)

Size(g) == Cardinality(DOMAIN g.edges)

\* ---------------------------------------------------------- protocol files
SeqsUpTo(S, n) == UNION {[1..k -> S] : k \in 0..n}

\* Titles are distinct per declaration: entry i of owner's nodes list is
\* titled <<owner, i>>.
NodeList(refs, owner) ==
  [i \in 1..Len(refs) |-> [url |-> refs[i], title |-> <<owner, i>>]]

EdgeTypes == {"internal", "friend"}

MakeFile(owner, base, friends, nodeRefs, edges) ==
  [ version      |-> "0.1.0",
    generated_at |-> "2025-01-01T00:00:00Z",
    base_url     |-> base,
    site         |-> [title |-> owner],
    friends      |-> friends,
    nodes        |-> NodeList(nodeRefs, owner),
    edges        |-> edges ]

\* The self file: pages of the local site, links between them and to a
\* friend site, and the declared friends (two URLs of one origin, a second
\* origin, and a string that is no absolute URL).
SelfBases == {Abs(LocalOrigin, ""), EmptyRef}
SelfNodeRefs == {Rel("/"), Rel("/p"), Abs(LocalOrigin, "/p"), BadRef}
SelfEdges ==
  [source : {Rel("/")},
   target : {Rel("/p"), Abs("https://a.test", ""), BadRef},
   type : EdgeTypes]
FriendRefs ==
  {Abs("https://a.test", ""), Abs("https://a.test", "/p"),
   Abs("https://b.test", ""), Rel("/p")}

\* Self files handed to buildGraph alone: every nodes list and edges list
\* within the bounds, over references that include one declared twice, an
\* absolute spelling of a local page, and an unparseable one.
SelfFiles ==
  { MakeFile("self", b, << >>, nr, es) :
      b \in SelfBases,
      nr \in SeqsUpTo(SelfNodeRefs, MaxNodes), es \in SeqsUpTo(SelfEdges, MaxEdges) }

\* Self files of a whole assembly run: the home page declared or not, at
\* most one link to the friend site, and every friends list within the bound.
RunSelfFiles ==
  { MakeFile("self", Abs(LocalOrigin, "/"), fr, nr, es) :
      fr \in SeqsUpTo(FriendRefs, MaxFriends),
      nr \in {<< >>, <<Rel("/")>>},
      es \in {<< >>} \cup
             {<<[source |-> Rel("/"), target |-> Abs("https://a.test", ""), type |-> t]>> :
                t \in EdgeTypes} }

\* The files a friend origin o may serve: it declares nothing, its home page
\* or a page at the local site's URL; it links to nothing, to one of its own
\* pages, back to the local site, to the other friend, or to a URL that does
\* not parse; one more file has a base_url that does not parse.
OtherFriend(o) == CHOOSE x \in FriendOriginSet : x # o
FriendNodeLists == {<< >>, <<Rel("/")>>, <<Abs(LocalOrigin, "")>>}
FriendEdgeLists(o) ==
  {<< >>, <<[source |-> Rel("/"), target |-> Rel("/p"), type |-> "internal"]>>,
   <<[source |-> Rel("/"), target |-> BadRef, type |-> "internal"]>>} \cup
  {<<[source |-> Rel("/"), target |-> Abs(x, ""), type |-> "friend"]>> :
     x \in {LocalOrigin, OtherFriend(o)}}
FriendFiles(o) ==
  { MakeFile(o, Abs(o, "/"), << >>, nr, es) :
      nr \in FriendNodeLists, es \in FriendEdgeLists(o) } \cup
  { MakeFile(o, EmptyRef, << >>, <<Rel("/")>>, << >>) }

\* -------------------------------------------------------------- buildGraph
\* The outcome of a loop that may throw: the graph so far and whether
\* `new URL` threw.
Ran(g) == [graph |-> g, threw |-> FALSE]
Threw(g) == [graph |-> g, threw |-> TRUE]

\* Mutant of BuildNodes: the loop stops one entry early.
RECURSIVE BuildNodesSkipLast(_, _, _, _)
BuildNodesSkipLast(g, file, config, i) ==
  IF i >= Len(file.nodes) THEN Ran(g)
  ELSE LET node == file.nodes[i]
           absoluteUrl == NewURL(node.url, file.base_url)
       IN IF absoluteUrl = InvalidUrl THEN Threw(g)
          ELSE BuildNodesSkipLast(
                 MergeNode(g, absoluteUrl,
                   [title |-> node.title, label |-> node.title,
                    size |-> config.nodeSize, color |-> config.localNodeColor]),
                 file, config, i + 1)

\* for (const node of file.nodes) { ... }   (index.ts 113-121)
RECURSIVE BuildNodes(_, _, _, _)
BuildNodes(g, file, config, i) ==
  IF i > Len(file.nodes) THEN Ran(g)
  ELSE LET node == file.nodes[i]
           absoluteUrl == NewURL(node.url, file.base_url)
       IN IF absoluteUrl = InvalidUrl THEN Threw(g)
          ELSE BuildNodes(
                 MergeNode(g, absoluteUrl,
                   [title |-> node.title, label |-> node.title,
                    size |-> config.nodeSize, color |-> config.localNodeColor]),
                 file, config, i + 1)

\* The attributes buildGraph gives to an edge's target node (index.ts 129-132).
TargetAttrs(edge, config) ==
  IF edge.type = "friend"
    THEN [size |-> config.nodeSize, color |-> config.friendNodeColor]
    ELSE [size |-> config.nodeSize]

\* for (const edge of file.edges) { ... }   (index.ts 125-140)
RECURSIVE BuildEdges(_, _, _, _)
BuildEdges(g, file, config, i) ==
  IF i > Len(file.edges) THEN Ran(g)
  ELSE LET edge == file.edges[i]
           absoluteSource == NewURL(edge.source, file.base_url)
           absoluteTarget == NewURL(edge.target, file.base_url)
           edgeColor == IF edge.type = "friend"
                          THEN config.friendEdgeColor ELSE config.localEdgeColor
       IN IF absoluteSource = InvalidUrl \/ absoluteTarget = InvalidUrl THEN Threw(g)
          ELSE LET g1 == MergeNode(g, absoluteSource, [size |-> config.nodeSize])
                   g2 == MergeNode(g1, absoluteTarget, TargetAttrs(edge, config))
                   g3 == MergeDirectedEdge(g2, absoluteSource, absoluteTarget,
                           [type |-> edge.type, color |-> edgeColor,
                            size |-> config.edgeSize])
               IN BuildEdges(g3, file, config, i + 1)

\* buildGraph(file, config): the graph, or the TypeError of `new URL`.
BuildGraphOf(file, config) ==
  LET g0 == [EmptyGraph EXCEPT
               !.attrs = [base_url |-> file.base_url, site |-> file.site]]
      afterNodes == BuildNodes(g0, file, config, 1)
  IN IF afterNodes.threw THEN afterNodes
     ELSE BuildEdges(afterNodes.graph, file, config, 1)

\* --------------------------------------------------------- response bodies
\* A decoded JSON value is a protocol file with at most one deviation from
\* the GraphGardenFile shape: deviation = <<path, what>> says that the value
\* at `path` is of JavaScript kind `what` ("absent", "null", "number",
\* "string", "object", "array") instead of what the file's content gives;
\* <<"none", "">> is no deviation.  json = FALSE is a body response.json()
\* cannot decode.
NoDeviation == <<"none", "">>
JsonBody(file, deviation) == [json |-> TRUE, deviation |-> deviation, content |-> file]
NotJson(file) == [json |-> FALSE, deviation |-> NoDeviation, content |-> file]

\* The kind of the value at `path` when the body does not deviate there.
NaturalKind(path) ==
  IF path \in {"version", "generated_at", "base_url", "site.title", "friends[]",
               "nodes[].url", "nodes[].title", "edges[].source", "edges[].target",
               "edges[].type"}
    THEN "string"
  ELSE IF path \in {"friends", "nodes", "edges"} THEN "array"
  ELSE IF path \in {"site.description", "site.language"} THEN "absent"
  ELSE "object"

\* The value that holds the value at `path`.
ParentPath(path) ==
  IF path \in {"version", "generated_at", "base_url", "site", "friends", "nodes", "edges"}
    THEN "value"
  ELSE IF path \in {"site.title", "site.description", "site.language"} THEN "site"
  ELSE IF path = "friends[]" THEN "friends"
  ELSE IF path = "nodes[]" THEN "nodes"
  ELSE IF path = "edges[]" THEN "edges"
  ELSE IF path \in {"nodes[].url", "nodes[].title"} THEN "nodes[]"
  ELSE IF path \in {"edges[].source", "edges[].target", "edges[].type"} THEN "edges[]"
  ELSE "none"

\* The value at `path` lies inside the value at the deviation's path.
RECURSIVE Below(_, _)
Below(path, top) ==
  LET parent == ParentPath(path) IN
  IF parent = "none" THEN FALSE
  ELSE parent = top \/ Below(parent, top)

\* The kind of the value at `path`: the deviation's kind there, nothing
\* (undefined) inside a value that is not of its natural kind, and the
\* natural kind elsewhere.
KindAt(body, path) ==
  IF body.deviation = NoDeviation THEN NaturalKind(path)
  ELSE IF body.deviation[1] = path THEN body.deviation[2]
  ELSE IF /\ Below(path, body.deviation[1])
          /\ body.deviation[2] # NaturalKind(body.deviation[1])
    THEN "absent"
  ELSE NaturalKind(path)

\* JavaScript's typeof for a value of the given kind.
TypeOf(kind) ==
  IF kind = "absent" THEN "undefined"
  ELSE IF kind \in {"null", "array", "object"} THEN "object"
  ELSE kind

\* Mutant of IsNode: the title is not looked at.
IsNodeUrlOnly(body, i) ==
  LET at(path) == IF i = 1 THEN KindAt(body, path) ELSE NaturalKind(path) IN
  /\ TypeOf(at("nodes[]")) = "object"
  /\ at("nodes[]") # "null"
  /\ TypeOf(at("nodes[].url")) = "string"

\* isNode(v) for entry i of nodes (index.ts 60-67); a deviation below
\* nodes[] is a deviation of the first entry.
IsNode(body, i) ==
  LET at(path) == IF i = 1 THEN KindAt(body, path) ELSE NaturalKind(path) IN
  /\ TypeOf(at("nodes[]")) = "object"
  /\ at("nodes[]") # "null"
  /\ TypeOf(at("nodes[].url")) = "string"
  /\ TypeOf(at("nodes[].title")) = "string"

\* isEdge(v) for entry i of edges (index.ts 69-78).
IsEdge(body, i) ==
  LET at(path) == IF i = 1 THEN KindAt(body, path) ELSE NaturalKind(path) IN
  /\ TypeOf(at("edges[]")) = "object"
  /\ at("edges[]") # "null"
  /\ TypeOf(at("edges[].source")) = "string"
  /\ TypeOf(at("edges[].target")) = "string"
  \* a deviation at edges[].type is a value other than the two literals
  /\ ~(i = 1 /\ body.deviation[1] = "edges[].type")
  /\ body.content.edges[i].type \in {"internal", "friend"}

\* isGraphGardenFile(value) (index.ts 81-102)
IsGraphGardenFile(body) ==
  /\ ~(TypeOf(KindAt(body, "value")) # "object" \/ KindAt(body, "value") = "null")
  /\ TypeOf(KindAt(body, "version")) = "string"
  /\ TypeOf(KindAt(body, "generated_at")) = "string"
  /\ TypeOf(KindAt(body, "base_url")) = "string"
  /\ ~(TypeOf(KindAt(body, "site")) # "object" \/ KindAt(body, "site") = "null")
  /\ TypeOf(KindAt(body, "site.title")) = "string"
  /\ ~(KindAt(body, "site.description") # "absent"
       /\ TypeOf(KindAt(body, "site.description")) # "string")
  /\ ~(KindAt(body, "site.language") # "absent"
       /\ TypeOf(KindAt(body, "site.language")) # "string")
  /\ KindAt(body, "friends") = "array"
  /\ \A i \in 1..Len(body.content.friends) :
       TypeOf(IF i = 1 THEN KindAt(body, "friends[]") ELSE "string") = "string"
  /\ KindAt(body, "nodes") = "array"
  /\ \A i \in 1..Len(body.content.nodes) : IsNode(body, i)
  /\ KindAt(body, "edges") = "array"
  /\ \A i \in 1..Len(body.content.edges) : IsEdge(body, i)

\* --------------------------------------------------------------- responses
\* What fetch(origin + WELL_KNOWN_PATH) settles with: a rejection (network
\* error), or a response with its ok flag and body.
NullFile == MakeFile("null", EmptyRef, << >>, << >>, << >>)
Pending == [kind |-> "pending", ok |-> FALSE, body |-> NotJson(NullFile)]
Rejects == [kind |-> "rejects", ok |-> FALSE, body |-> NotJson(NullFile)]
Responds(ok, body) == [kind |-> "responds", ok |-> ok, body |-> body]

\* A friend origin's possible answers: a network error, a 404 that carries
\* a well-formed file, a 200 that is not JSON, a 200 whose JSON lacks the
\* friends field, and a 200 with each file of FriendFiles.
Responses(o) ==
  {Rejects,
   Responds(FALSE, JsonBody(MakeFile(o, Abs(o, "/"), << >>, <<Rel("/")>>, << >>),
                            NoDeviation)),
   Responds(TRUE, NotJson(NullFile)),
   Responds(TRUE, JsonBody(MakeFile(o, Abs(o, "/"), << >>, <<Rel("/")>>, << >>),
                           <<"friends", "absent">>))} \cup
  {Responds(TRUE, JsonBody(f, NoDeviation)) : f \in FriendFiles(o)}

\* A settled promise of Promise.allSettled: rejected, or fulfilled with
\* null (isFile = FALSE) or with a validated file.
Unsettled == [status |-> "pending", isFile |-> FALSE, value |-> NullFile]
Rejected == [status |-> "rejected", isFile |-> FALSE, value |-> NullFile]
FulfilledNull == [status |-> "fulfilled", isFile |-> FALSE, value |-> NullFile]
Fulfilled(file) == [status |-> "fulfilled", isFile |-> TRUE, value |-> file]

\* Mutant of FetchTask: the response's ok flag is not looked at.
FetchTaskIgnoresOk(response) ==
  IF response.kind = "rejects" THEN Rejected
  ELSE IF ~response.body.json THEN Rejected
  ELSE IF ~IsGraphGardenFile(response.body) THEN FulfilledNull
  ELSE Fulfilled(response.body.content)

\* Mutant of FetchTask: the decoded body is returned without validation.
FetchTaskUnvalidated(response) ==
  IF response.kind = "rejects" THEN Rejected
  ELSE IF ~response.ok THEN FulfilledNull
  ELSE IF ~response.body.json THEN Rejected
  ELSE Fulfilled(response.body.content)

\* The async task of one origin (index.ts 182-196).
FetchTask(response) ==
  IF response.kind = "rejects" THEN Rejected
  ELSE IF ~response.ok THEN FulfilledNull
  ELSE IF ~response.body.json THEN Rejected
  ELSE IF ~IsGraphGardenFile(response.body) THEN FulfilledNull
  ELSE Fulfilled(response.body.content)

\* --------------------------------------------------------- fetchFriendGraphs
Range(seq) == {seq[i] : i \in 1..Len(seq)}

\* Mutant of AddOrigins: no try/catch around `new URL`, the first entry that
\* does not parse ends the loop.
RECURSIVE AddOriginsUntilInvalid(_, _, _)
AddOriginsUntilInvalid(friends, i, acc) ==
  IF i > Len(friends) THEN acc
  ELSE LET origin == OriginOf(friends[i]) IN
       IF origin = "TypeError" THEN acc
       ELSE IF origin \in Range(acc)
         THEN AddOriginsUntilInvalid(friends, i + 1, acc)
         ELSE AddOriginsUntilInvalid(friends, i + 1, Append(acc, origin))

\* origins.add(new URL(friend).origin) for each friend, in the Set's
\* insertion order; an entry `new URL` rejects is skipped (index.ts 172-179).
RECURSIVE AddOrigins(_, _, _)
AddOrigins(friends, i, acc) ==
  IF i > Len(friends) THEN acc
  ELSE LET origin == OriginOf(friends[i]) IN
       IF origin = "TypeError" \/ origin \in Range(acc)
         THEN AddOrigins(friends, i + 1, acc)
         ELSE AddOrigins(friends, i + 1, Append(acc, origin))

\* Mutant of FriendOrigins: an array of origins instead of a Set, one entry
\* per parseable friend.
RECURSIVE AddEveryOrigin(_, _, _)
AddEveryOrigin(friends, i, acc) ==
  IF i > Len(friends) THEN acc
  ELSE LET origin == OriginOf(friends[i]) IN
       IF origin = "TypeError"
         THEN AddEveryOrigin(friends, i + 1, acc)
         ELSE AddEveryOrigin(friends, i + 1, Append(acc, origin))

FriendOriginsNoDedup(friends) == AddEveryOrigin(friends, 1, << >>)

FriendOrigins(friends) == AddOrigins(friends, 1, << >>)

\* console.warn(`fetchFriendGraphs: invalid friend URL: ${friend}`), once per
\* entry `new URL` rejects, in the order of the friends list (index.ts 176-178).
InvalidFriendWarnings(friends) ==
  LET invalid == SelectSeq(friends, LAMBDA friend : OriginOf(friend) = "TypeError")
  IN [i \in 1..Len(invalid) |-> <<"invalid friend URL", invalid[i]>>]

\* The warnings of one origin's task (index.ts 184-194).
TaskWarnings(origin, response) ==
  IF response.kind # "responds" THEN << >>
  ELSE IF ~response.ok THEN << <<"responded", origin>> >>
  ELSE IF response.body.json /\ ~IsGraphGardenFile(response.body)
    THEN << <<"invalid GraphGarden file", origin>> >>
  ELSE << >>

\* The URL of one outbound fetch (index.ts 183).
FetchUrl(origin) == <<origin, WELL_KNOWN_PATH>>

\* Mutant of FriendNodes: the friend's paths are resolved against the local
\* base_url (the graph's attribute) instead of the friend file's own.
RECURSIVE FriendNodesLocalBase(_, _, _, _)
FriendNodesLocalBase(g, friendFile, config, i) ==
  IF i > Len(friendFile.nodes) THEN Ran(g)
  ELSE LET node == friendFile.nodes[i]
           absoluteUrl == NewURL(node.url, g.attrs.base_url)
       IN IF absoluteUrl = InvalidUrl THEN Threw(g)
          ELSE FriendNodesLocalBase(
                 MergeNode(g, absoluteUrl,
                   [title |-> node.title, label |-> node.title,
                    size |-> config.nodeSize, color |-> config.friendNodeColor]),
                 friendFile, config, i + 1)

\* for (const node of friendFile.nodes) { ... }   (index.ts 208-216)
RECURSIVE FriendNodes(_, _, _, _)
FriendNodes(g, friendFile, config, i) ==
  IF i > Len(friendFile.nodes) THEN Ran(g)
  ELSE LET node == friendFile.nodes[i]
           absoluteUrl == NewURL(node.url, friendFile.base_url)
       IN IF absoluteUrl = InvalidUrl THEN Threw(g)
          ELSE FriendNodes(
                 MergeNode(g, absoluteUrl,
                   [title |-> node.title, label |-> node.title,
                    size |-> config.nodeSize, color |-> config.friendNodeColor]),
                 friendFile, config, i + 1)

\* Mutant of FriendTargetAttrs: the target of an internal edge is coloured
\* as a local page.
FriendTargetAttrsLocal(edge, config) ==
  IF edge.type = "friend"
    THEN [size |-> config.nodeSize, color |-> config.friendNodeColor]
    ELSE [size |-> config.nodeSize, color |-> config.localNodeColor]

\* Mutant of FriendTargetAttrs: the target gets its size only.
FriendTargetAttrsSizeOnly(edge, config) == [size |-> config.nodeSize]

\* The attributes fetchFriendGraphs gives to an edge's target node
\* (index.ts 222-225).
FriendTargetAttrs(edge, config) ==
  IF edge.type = "friend"
    THEN [size |-> config.nodeSize, color |-> config.friendNodeColor]
    ELSE [size |-> config.nodeSize]

\* Mutant of FriendEdges: an absolute source or target is used as the node
\* key as it is written, not as the href `new URL` gives.
AsWritten(ref, base) ==
  IF ref.kind = "abs" /\ ParseAbsolute(base) # InvalidUrl
    THEN <<ref.origin, ref.path>> ELSE NewURL(ref, base)

RECURSIVE FriendEdgesAsWritten(_, _, _, _)
FriendEdgesAsWritten(g, friendFile, config, i) ==
  IF i > Len(friendFile.edges) THEN Ran(g)
  ELSE LET edge == friendFile.edges[i]
           absoluteSource == AsWritten(edge.source, friendFile.base_url)
           absoluteTarget == AsWritten(edge.target, friendFile.base_url)
       IN IF absoluteSource = InvalidUrl \/ absoluteTarget = InvalidUrl THEN Threw(g)
          ELSE LET g1 == MergeNode(g, absoluteSource, [size |-> config.nodeSize])
                   g2 == MergeNode(g1, absoluteTarget, FriendTargetAttrs(edge, config))
                   g3 == MergeDirectedEdge(g2, absoluteSource, absoluteTarget,
                           [type |-> edge.type, color |-> config.friendEdgeColor,
                            size |-> config.edgeSize])
               IN FriendEdgesAsWritten(g3, friendFile, config, i + 1)

\* Mutant of FriendEdges: an edge of a friend file is coloured by its type,
\* as buildGraph colours the self file's.
RECURSIVE FriendEdgesColouredByType(_, _, _, _)
FriendEdgesColouredByType(g, friendFile, config, i) ==
  IF i > Len(friendFile.edges) THEN Ran(g)
  ELSE LET edge == friendFile.edges[i]
           absoluteSource == NewURL(edge.source, friendFile.base_url)
           absoluteTarget == NewURL(edge.target, friendFile.base_url)
           edgeColor == IF edge.type = "friend"
                          THEN config.friendEdgeColor ELSE config.localEdgeColor
       IN IF absoluteSource = InvalidUrl \/ absoluteTarget = InvalidUrl THEN Threw(g)
          ELSE LET g1 == MergeNode(g, absoluteSource, [size |-> config.nodeSize])
                   g2 == MergeNode(g1, absoluteTarget, FriendTargetAttrs(edge, config))
                   g3 == MergeDirectedEdge(g2, absoluteSource, absoluteTarget,
                           [type |-> edge.type, color |-> edgeColor,
                            size |-> config.edgeSize])
               IN FriendEdgesColouredByType(g3, friendFile, config, i + 1)

\* Mutant of FriendEdges: every edge of a friend file is registered as a
\* friend edge.
RECURSIVE FriendEdgesFriendTyped(_, _, _, _)
FriendEdgesFriendTyped(g, friendFile, config, i) ==
  IF i > Len(friendFile.edges) THEN Ran(g)
  ELSE LET edge == friendFile.edges[i]
           absoluteSource == NewURL(edge.source, friendFile.base_url)
           absoluteTarget == NewURL(edge.target, friendFile.base_url)
       IN IF absoluteSource = InvalidUrl \/ absoluteTarget = InvalidUrl THEN Threw(g)
          ELSE LET g1 == MergeNode(g, absoluteSource, [size |-> config.nodeSize])
                   g2 == MergeNode(g1, absoluteTarget, FriendTargetAttrs(edge, config))
                   g3 == MergeDirectedEdge(g2, absoluteSource, absoluteTarget,
                           [type |-> "friend", color |-> config.friendEdgeColor,
                            size |-> config.edgeSize])
               IN FriendEdgesFriendTyped(g3, friendFile, config, i + 1)

\* for (const edge of friendFile.edges) { ... }   (index.ts 218-232)
RECURSIVE FriendEdges(_, _, _, _)
FriendEdges(g, friendFile, config, i) ==
  IF i > Len(friendFile.edges) THEN Ran(g)
  ELSE LET edge == friendFile.edges[i]
           absoluteSource == NewURL(edge.source, friendFile.base_url)
           absoluteTarget == NewURL(edge.target, friendFile.base_url)
       IN IF absoluteSource = InvalidUrl \/ absoluteTarget = InvalidUrl THEN Threw(g)
          ELSE LET g1 == MergeNode(g, absoluteSource, [size |-> config.nodeSize])
                   g2 == MergeNode(g1, absoluteTarget, FriendTargetAttrs(edge, config))
                   g3 == MergeDirectedEdge(g2, absoluteSource, absoluteTarget,
                           [type |-> edge.type, color |-> config.friendEdgeColor,
                            size |-> config.edgeSize])
               IN FriendEdges(g3, friendFile, config, i + 1)

\* Mutant of TryBlock: the merge starts, as buildGraph does, by replacing
\* the graph's attributes with the file's.
TryBlockReplacesAttributes(g, friendFile, config) ==
  LET g0 == [g EXCEPT !.attrs = [base_url |-> friendFile.base_url,
                                 site |-> friendFile.site]]
      afterNodes == FriendNodes(g0, friendFile, config, 1)
  IN IF afterNodes.threw THEN afterNodes
     ELSE FriendEdges(afterNodes.graph, friendFile, config, 1)

\* The body of the try block (index.ts 208-232): the nodes loop, then the
\* edges loop, up to the first `new URL` that throws.
TryBlock(g, friendFile, config) ==
  LET afterNodes == FriendNodes(g, friendFile, config, 1)
  IN IF afterNodes.threw THEN afterNodes
     ELSE FriendEdges(afterNodes.graph, friendFile, config, 1)

\* Mutant of Catch: the error is thrown on.
Rethrow(outcome) == outcome

\* Mutant of Catch: after an error the graph is cleared.
CatchClearsGraph(outcome) ==
  Ran(IF outcome.threw
        THEN [outcome.graph EXCEPT !.nodes = << >>, !.edges = << >>]
        ELSE outcome.graph)

\* catch (error) { console.warn(...) } (index.ts 233-238): the error goes no
\* further; the graph is as the try block left it.
Catch(outcome) == Ran(outcome.graph)

\* The try block of the merge loop (index.ts 207-238): what was merged
\* before a `new URL` threw stays in the graph, the catch only warns.
MergeFriendFile(g, friendFile, config) ==
  Catch(TryBlock(g, friendFile, config)).graph

\* One iteration of `for (const result of results)` (index.ts 199-239): the
\* graph after it, and whether an error left the loop.
MergeOutcome(g, result, config) ==
  IF result.status = "rejected" THEN Ran(g)
  ELSE IF ~result.isFile THEN Ran(g)
  ELSE Catch(TryBlock(g, result.value, config))

MergeResultInto(g, result, config) == MergeOutcome(g, result, config).graph

\* The warnings of one iteration of the merge loop (index.ts 201, 234-237).
MergeWarnings(g, result, config) ==
  IF result.status = "rejected" THEN << <<"fetch failed", "reason">> >>
  ELSE IF ~result.isFile THEN << >>
  ELSE IF TryBlock(g, result.value, config).threw
    THEN << <<"failed to merge friend file", result.value.base_url>> >>
  ELSE << >>

\* Mutant of AllSettled: Promise.all, where one rejection loses every result.
AllSettledAsAll(taskResults) ==
  IF \E i \in 1..Len(taskResults) : taskResults[i].status = "rejected"
    THEN [i \in 1..Len(taskResults) |-> Rejected]
    ELSE taskResults

\* What `await Promise.allSettled(...)` hands to the merge loop: every
\* task's outcome, in the order of the origins (index.ts 181).
AllSettled(taskResults) == taskResults

\* Mutant of AllHaveSettled: the await goes on only when every task was
\* fulfilled.
AllWereFulfilled(taskResults) ==
  \A j \in 1..Len(taskResults) : taskResults[j].status = "fulfilled"

\* Mutant of AllHaveSettled: the await goes on as soon as one task has
\* settled.
OneHasSettled(taskResults) ==
  \E j \in 1..Len(taskResults) : taskResults[j].status # "pending"

\* The promise of Promise.allSettled resolves when no task is pending
\* (index.ts 181).
AllHaveSettled(taskResults) ==
  \A j \in 1..Len(taskResults) : taskResults[j].status # "pending"

\* Mutant of ReturnValue: a copy of the graph is returned.
ReturnCopy(g) == [g EXCEPT !.instance = g.instance + 1]

\* return graph (index.ts 241): the reference the function was given.
ReturnValue(g) == g

\* Mutant of ResultAt: results are merged as they settle.
ResultAtSettleOrder(taskResults, order, k) == taskResults[order[k]]

\* The result the k-th iteration of the merge loop takes (index.ts 199).
ResultAt(taskResults, order, k) == AllSettled(taskResults)[k]

\* ----------------------------------------------------------- the element
\* What the <graph-garden> element's own fetch(WELL_KNOWN_PATH) may settle
\* with.  The decoded bodies deviate from the GraphGardenFile shape in at
\* most one place, over every place and every JavaScript kind of value.
ShapePaths ==
  {"value", "version", "generated_at", "base_url", "site", "site.title",
   "site.description", "site.language", "friends", "friends[]", "nodes", "nodes[]",
   "nodes[].url", "nodes[].title", "edges", "edges[]", "edges[].source",
   "edges[].target", "edges[].type"}

ValueKinds == {"absent", "null", "number", "string", "object", "array"}

\* Every single deviation: a kind other than the natural one, or, for an
\* edge's type, a string that is neither "internal" nor "friend".
Deviations ==
  {d \in ShapePaths \X ValueKinds : d[2] # NaturalKind(d[1]) \/ d[1] = "edges[].type"}

\* The site's own file: no friend, one friend, two friends; with friends it
\* links its home page to the first one.  One more file declares, after its
\* home page, a page whose url does not parse; another one declares as
\* internal the link from its friend's home page back to its own.
ElementSelfFiles ==
  { MakeFile("self", Abs(LocalOrigin, "/"), << >>, <<Rel("/")>>, << >>),
    MakeFile("self", Abs(LocalOrigin, "/"), << >>, <<Rel("/"), BadRef>>, << >>),
    MakeFile("self", Abs(LocalOrigin, "/"), <<Abs("https://a.test", "")>>, <<Rel("/")>>,
             <<[source |-> Abs("https://a.test", ""), target |-> Rel("/"),
                type |-> "internal"]>>),
    MakeFile("self", Abs(LocalOrigin, "/"), <<Abs("https://a.test", "")>>, <<Rel("/")>>,
             <<[source |-> Rel("/"), target |-> Abs("https://a.test", ""),
                type |-> "friend"]>>),
    MakeFile("self", Abs(LocalOrigin, "/"),
             <<Abs("https://a.test", ""), Abs("https://b.test", "")>>, <<Rel("/")>>,
             <<[source |-> Rel("/"), target |-> Abs("https://a.test", ""),
                type |-> "friend"]>>) }

SelfResponses ==
  {Rejects, Responds(TRUE, NotJson(NullFile))} \cup
  {Responds(ok, JsonBody(f, NoDeviation)) : ok \in BOOLEAN, f \in ElementSelfFiles} \cup
  {Responds(TRUE, JsonBody(f, d)) : f \in ElementSelfFiles, d \in Deviations}

NotFetched == [kind |-> "none", ok |-> FALSE, body |-> NotJson(NullFile)]

\* Mutant of ReachesBuildGraph: the status of the response is not looked at.
ReachesBuildGraphAnyStatus(response) ==
  IF response.kind = "rejects" THEN FALSE
  ELSE IF ~response.body.json THEN FALSE
  ELSE IsGraphGardenFile(response.body)

\* connectedCallback up to buildGraph (index.ts 276-288): whether the
\* fetched data reaches buildGraph.  A rejected fetch and a body that is not
\* JSON throw into the catch of line 295.
ReachesBuildGraph(response) ==
  IF response.kind = "rejects" THEN FALSE
  ELSE IF ~response.ok THEN FALSE
  ELSE IF ~response.body.json THEN FALSE
  ELSE IsGraphGardenFile(response.body)

\* A graph reference that refers to no graph (null, or a promise not yet
\* resolved).
NoGraph == [instance |-> 0, nodes |-> << >>, edges |-> << >>, attrs |-> << >>]

\* The element before it is connected (index.ts 250-260): no graph, no
\* renderer, no container, no shadow root.  `graph` is the instance of the
\* graph the field refers to and `renderer` the index in `sigmas` of the
\* Sigma the field refers to, 0 for null; `sigmas` are the Sigma instances
\* created so far, `shadow` the children of the shadow root, `errors` what
\* went to console.error, `attributes` its numeric attributes.  `second` is
\* the run of connectedCallback that a second connection starts: where it
\* is, the graph it built (instance 2) and the fetches it issued.
NewElement ==
  [ attributes |-> NoAttributes,
    second    |-> [pc |-> "none", graph |-> NoGraph, fetchLog |-> << >>],
    fetched   |-> NotFetched,
    accepted  |-> FALSE,
    connected |-> FALSE,
    connects  |-> 0,
    graph     |-> NoGraph.instance,
    renderer  |-> 0,
    container |-> 0,
    shadow    |-> << >>,
    sigmas    |-> << >>,
    errors    |-> << >> ]

\* connectedCallback before its first await (index.ts 263-273): the shadow
\* root gets a style and a new container div.
Attached(e) ==
  [e EXCEPT !.connected = TRUE,
            !.connects = @ + 1,
            !.shadow = @ \o <<"style", "div">>,
            !.container = e.connects + 1]

\* What connectedCallback passes to console.error (index.ts 278, 286, 296).
SelfErrors(response, builtThrew) ==
  IF response.kind = "rejects" THEN << "error during initialization" >>
  ELSE IF ~response.ok THEN << "failed to fetch" >>
  ELSE IF ~response.body.json THEN << "error during initialization" >>
  ELSE IF ~IsGraphGardenFile(response.body)
    THEN << "fetched file does not match the GraphGarden protocol shape" >>
  ELSE IF builtThrew THEN << "error during initialization" >>
  ELSE << >>

\* graph.clear(): every node and edge is dropped, the attributes stay.
Clear(g) == [g EXCEPT !.nodes = << >>, !.edges = << >>]

\* this.renderer?.kill()
Killed(sigmas, renderer) ==
  [i \in 1..Len(sigmas) |->
     IF i = renderer THEN [sigmas[i] EXCEPT !.alive = FALSE] ELSE sigmas[i]]

\* Mutant of Disconnected: the container div is kept.
DisconnectedKeepsContainer(e) ==
  [e EXCEPT !.sigmas = Killed(@, e.renderer),
            !.renderer = 0,
            !.second.graph = IF e.graph = @.instance THEN Clear(@) ELSE @,
            !.graph = NoGraph.instance,
            !.shadow = << >>,
            !.connected = FALSE]

\* The element's fields after disconnectedCallback (index.ts 300-311); the
\* graph of the second run is cleared when it is the one the field refers to.
Disconnected(e) ==
  [e EXCEPT !.sigmas = Killed(@, e.renderer),
            !.renderer = 0,
            !.second.graph = IF e.graph = @.instance THEN Clear(@) ELSE @,
            !.graph = NoGraph.instance,
            !.shadow = << >>,
            !.container = 0,
            !.connected = FALSE]

\* A coordinate ForceAtlas2 leaves on a node: some finite number.
Coordinate == "finite number"

\* Mutant of AssignLayoutOf: only the nodes that have a title are placed.
AssignLayoutTitled(g) ==
  IF Order(g) = 0 THEN g
  ELSE [g EXCEPT !.nodes =
          [u \in DOMAIN g.nodes |->
             IF "title" \in DOMAIN g.nodes[u]
               THEN AssignAttrs(g.nodes[u], [x |-> Coordinate, y |-> Coordinate])
               ELSE g.nodes[u]]]

\* assignLayout(graph, iterations) (index.ts 149-164): every node gets x and
\* y; nothing happens to a graph without nodes.
AssignLayoutOf(g) ==
  IF Order(g) = 0 THEN g
  ELSE [g EXCEPT !.nodes =
          [u \in DOMAIN g.nodes |->
             AssignAttrs(g.nodes[u], [x |-> Coordinate, y |-> Coordinate])]]

\* ------------------------------------------------------------------- state
VARIABLES
  pc,           \* "start", "fetching", "aborted", "built", "threw", "awaiting",
                \* "merging", "rejected", "done", "failed", "laidout", "finished"
  selfFile,     \* the file buildGraph was given
  graph,        \* the graphology graph
  graphBefore,  \* the graph as fetchFriendGraphs received it
  origins,      \* [...origins]: the distinct friend origins, in insertion order
  fetchLog,     \* the URLs fetch was called with, in call order
  responses,    \* what each fetch settled with (Pending until it does)
  results,      \* the outcome of each origin's task
  settleOrder,  \* the indices of the tasks, in the order they settled
  mergeIdx,     \* how many results the merge loop has processed
  warnings,     \* what was passed to console.warn, in order
  returned,     \* what the promise of fetchFriendGraphs resolved to
  element       \* the <graph-garden> element: its fields, its own fetch and
                \* whether the fetched data reached buildGraph

vars ==
  <<pc, selfFile, graph, graphBefore, origins, fetchLog, responses, results,
    settleOrder, mergeIdx, warnings, returned, element>>

Config == DEFAULT_CONFIG

Init ==
  /\ pc = "start"
  /\ selfFile = NullFile
  /\ graph = EmptyGraph
  /\ graphBefore = EmptyGraph
  /\ origins = << >>
  /\ fetchLog = << >>
  /\ responses = << >>
  /\ results = << >>
  /\ settleOrder = << >>
  /\ mergeIdx = 0
  /\ warnings = << >>
  /\ returned = NoGraph
  /\ element = NewElement

\* buildGraph(file, config) on one of `files` (index.ts 105-143).
BuildGraphFrom(files) ==
  /\ pc = "start"
  /\ \E file \in files :
       LET built == BuildGraphOf(file, Config) IN
       /\ selfFile' = file
       /\ pc' = IF built.threw THEN "threw" ELSE "built"
       /\ graph' = IF built.threw THEN EmptyGraph ELSE built.graph
  /\ UNCHANGED <<graphBefore, origins, fetchLog, responses, results, settleOrder,
                 mergeIdx, warnings, returned, element>>

BuildGraph == BuildGraphFrom(RunSelfFiles)

\* connectedCallback from the settling of its fetch to buildGraph (index.ts
\* 276-291), on the element e: the graph is built from the fetched data and
\* assigned to the element when the response is OK, decodes and passes
\* isGraphGardenFile; an error of buildGraph goes to the catch of line 295.
SelfFetchSettled(e, response) ==
  LET accepted == ReachesBuildGraph(response)
      data == response.body.content
      built == BuildGraphOf(data, ResolveConfig(e.attributes))
  IN /\ element' =
          [e EXCEPT !.fetched = response,
                    !.accepted = accepted,
                    !.graph = IF accepted /\ ~built.threw THEN built.graph.instance ELSE @,
                    !.errors = @ \o SelfErrors(response, accepted /\ built.threw)]
     /\ selfFile' = IF accepted THEN data ELSE selfFile
     /\ pc' = IF ~accepted THEN "aborted"
              ELSE IF built.threw THEN "threw" ELSE "built"
     /\ graph' = IF accepted /\ ~built.threw THEN built.graph ELSE graph

\* connectedCallback from its start to buildGraph (index.ts 262-291), the
\* element staying connected meanwhile.
ConnectedCallback ==
  /\ pc = "start"
  /\ \E response \in SelfResponses : SelfFetchSettled(Attached(element), response)
  /\ UNCHANGED <<graphBefore, origins, fetchLog, responses, results, settleOrder,
                 mergeIdx, warnings, returned>>

\* element.setAttribute(name, value) by the page, before the element is
\* connected; one attribute is given a value.
SetAttribute ==
  /\ pc = "start"
  /\ ~element.connected
  /\ element.attributes = NoAttributes
  /\ \E name \in AttributeNames, raw \in SeqsUpTo(AttrSymbols, MaxAttrLen) :
       element' = [element EXCEPT !.attributes[name] = Attribute(raw)]
  /\ UNCHANGED <<pc, selfFile, graph, graphBefore, origins, fetchLog, responses, results,
                 settleOrder, mergeIdx, warnings, returned>>

\* connectedCallback from its start to buildGraph (index.ts 262-291) where
\* the site serves a conforming file that declares no friend.
ConnectedCallbackFriendless ==
  /\ pc = "start"
  /\ \E file \in {f \in RunSelfFiles : f.friends = << >>} :
       SelfFetchSettled(Attached(element), Responds(TRUE, JsonBody(file, NoDeviation)))
  /\ UNCHANGED <<graphBefore, origins, fetchLog, responses, results, settleOrder,
                 mergeIdx, warnings, returned>>

\* connectedCallback up to its first await (index.ts 262-276).
ConnectedCallbackBegins ==
  /\ pc = "start"
  /\ element' = Attached(element)
  /\ pc' = "fetching"
  /\ UNCHANGED <<selfFile, graph, graphBefore, origins, fetchLog, responses, results,
                 settleOrder, mergeIdx, warnings, returned>>

\* The element's own fetch settles and connectedCallback goes on to
\* buildGraph (index.ts 276-291).
SelfFetchSettles ==
  /\ pc = "fetching"
  /\ \E response \in SelfResponses : SelfFetchSettled(element, response)
  /\ UNCHANGED <<graphBefore, origins, fetchLog, responses, results, settleOrder,
                 mergeIdx, warnings, returned>>

\* assignLayout(this.graph, config.iterations) once fetchFriendGraphs has
\* returned (index.ts 293), on the graph the element's field refers to at
\* that moment; on a null graph the read of graph.order throws into the catch
\* of line 295.
AssignLayout ==
  /\ pc = "done"
  /\ IF element.graph = NoGraph.instance
       THEN /\ pc' = "failed"
            /\ element' = [element EXCEPT !.errors = @ \o <<"error during initialization">>]
            /\ graph' = graph
       ELSE /\ pc' = "laidout"
            /\ graph' = IF element.graph = graph.instance
                          THEN AssignLayoutOf(graph) ELSE graph
            /\ element' = IF element.graph = graph.instance THEN element
                            ELSE [element EXCEPT !.second.graph = AssignLayoutOf(@)]
  /\ UNCHANGED <<selfFile, graphBefore, origins, fetchLog, responses, results,
                 settleOrder, mergeIdx, warnings, returned>>

\* this.initRenderer(config) (index.ts 294, 337-368): nothing without a
\* graph or a container; otherwise `new Sigma` gives the renderer, or throws
\* and leaves a warning.
InitRenderer ==
  /\ pc = "laidout"
  /\ pc' = "finished"
  /\ IF element.graph = NoGraph.instance \/ element.container = 0
       THEN UNCHANGED <<element, warnings>>
       ELSE \/ /\ element' =
                    [element EXCEPT
                       !.sigmas = Append(@, [alive |-> TRUE, graph |-> element.graph,
                                             container |-> element.container,
                                             labelSize |->
                                               ResolveConfig(element.attributes).labelSize]),
                       !.renderer = Len(element.sigmas) + 1]
               /\ warnings' = warnings
            \/ /\ warnings' = Append(warnings, <<"could not initialize Sigma renderer",
                                                 "error">>)
               /\ element' = element
  /\ UNCHANGED <<selfFile, graph, graphBefore, origins, fetchLog, responses, results,
                 settleOrder, mergeIdx, returned>>

\* connectedCallback is not running: it has not started, has ended, or is
\* suspended at one of its awaits (index.ts 276, 284, 292; 197 inside
\* fetchFriendGraphs).  From buildGraph to the call of fetchFriendGraphs, in
\* the merge loop, and from assignLayout to initRenderer it runs without
\* interruption.
Suspended ==
  \/ pc \in {"start", "fetching", "aborted", "threw", "awaiting", "rejected", "done",
             "failed", "finished"}
  \/ pc = "merging" /\ mergeIdx = 0

\* disconnectedCallback (index.ts 300-311), at any moment the element is
\* connected and no other code runs: whatever connectedCallback is awaiting
\* goes on afterwards.
DisconnectedCallback ==
  /\ element.connected
  /\ Suspended
  /\ element' = Disconnected(element)
  /\ graph' = IF element.graph = graph.instance THEN Clear(graph) ELSE graph
  /\ UNCHANGED <<pc, selfFile, graphBefore, origins, fetchLog, responses, results,
                 settleOrder, mergeIdx, warnings, returned>>

\* fetchFriendGraphs(graph, config, file.friends) up to its await: collect
\* the origins and issue one fetch per origin (index.ts 172-183).
CallFetchFriendGraphs ==
  /\ pc = "built"
  /\ LET os == FriendOrigins(selfFile.friends) IN
     /\ origins' = os
     /\ fetchLog' = [i \in 1..Len(os) |-> FetchUrl(os[i])]
     /\ responses' = [i \in 1..Len(os) |-> Pending]
     /\ results' = [i \in 1..Len(os) |-> Unsettled]
     /\ pc' = IF AllHaveSettled([i \in 1..Len(os) |-> Unsettled])
                THEN "merging" ELSE "awaiting"
  /\ warnings' = InvalidFriendWarnings(selfFile.friends)
  /\ graphBefore' = graph
  /\ settleOrder' = << >>
  /\ mergeIdx' = 0
  /\ UNCHANGED <<selfFile, graph, returned, element>>

\* One origin's fetch settles and its task runs to its end (index.ts
\* 183-195); when it was the last one, Promise.allSettled resolves.
FetchSettles ==
  /\ pc = "awaiting"
  /\ \E i \in 1..Len(results) :
       /\ results[i].status = "pending"
       /\ \E response \in Responses(origins[i]) :
            /\ responses' = [responses EXCEPT ![i] = response]
            /\ results' = [results EXCEPT ![i] = FetchTask(response)]
            /\ warnings' = warnings \o TaskWarnings(origins[i], response)
            /\ pc' = IF AllHaveSettled([results EXCEPT ![i] = FetchTask(response)])
                       THEN "merging" ELSE "awaiting"
       /\ settleOrder' = Append(settleOrder, i)
  /\ UNCHANGED <<selfFile, graph, graphBefore, origins, fetchLog, mergeIdx, returned,
                 element>>

\* One iteration of the merge loop (index.ts 199-239).
MergeResult ==
  /\ pc = "merging"
  /\ mergeIdx < Len(results)
  /\ LET result == ResultAt(results, settleOrder, mergeIdx + 1)
         config == ResolveConfig(element.attributes)
         outcome == MergeOutcome(graph, result, config)
     IN /\ graph' = outcome.graph
        /\ warnings' = warnings \o MergeWarnings(graph, result, config)
        /\ pc' = IF outcome.threw THEN "rejected" ELSE pc
  /\ mergeIdx' = mergeIdx + 1
  /\ UNCHANGED <<selfFile, graphBefore, origins, fetchLog, responses, results,
                 settleOrder, returned, element>>

\* return graph (index.ts 241)
Return ==
  /\ pc = "merging"
  /\ mergeIdx = Len(results)
  /\ pc' = "done"
  /\ returned' = ReturnValue(graph)
  /\ UNCHANGED <<selfFile, graph, graphBefore, origins, fetchLog, responses, results,
                 settleOrder, mergeIdx, warnings, element>>

Next == BuildGraph \/ CallFetchFriendGraphs \/ FetchSettles \/ MergeResult \/ Return

Spec == Init /\ [][Next]_vars

\* buildGraph alone, over the wider set of self files.
BuildGraphAlone == BuildGraphFrom(SelfFiles)

NextBuild == BuildGraphAlone

SpecBuild == Init /\ [][NextBuild]_vars

\* The element: connectedCallback fetches and validates the site's own file,
\* builds the graph and awaits fetchFriendGraphs (index.ts 276-292).
NextElement ==
  ConnectedCallback \/ CallFetchFriendGraphs \/ FetchSettles \/ MergeResult \/ Return

SpecElement == Init /\ [][NextElement]_vars

\* The element's life: connectedCallback with its awaits, layout and
\* renderer, and disconnectedCallback at any moment (index.ts 262-311).
NextLifecycle ==
  \/ ConnectedCallbackBegins
  \/ SelfFetchSettles
  \/ CallFetchFriendGraphs
  \/ FetchSettles
  \/ MergeResult
  \/ Return
  \/ AssignLayout
  \/ InitRenderer
  \/ DisconnectedCallback

SpecLifecycle == Init /\ [][NextLifecycle]_vars

\* for (const result of results) { ... } (index.ts 199-239), from result i on.
RECURSIVE MergeLoop(_, _, _, _)
MergeLoop(g, taskResults, config, i) ==
  IF i > Len(taskResults) THEN g
  ELSE MergeLoop(MergeResultInto(g, taskResults[i], config), taskResults, config, i + 1)

\* What the site serves to the second run: nothing (the fetch is rejected),
\* or the file of a home page with a link to its one friend.
ReconnectFiles ==
  { MakeFile("self", Abs(LocalOrigin, "/"), <<Abs("https://a.test", "")>>, <<Rel("/")>>,
             <<[source |-> Rel("/"), target |-> Abs("https://a.test", ""),
                type |-> "friend"]>>) }

ReconnectResponses ==
  {Rejects} \cup {Responds(TRUE, JsonBody(f, NoDeviation)) : f \in ReconnectFiles}

\* What a friend origin answers to the second run: a network error, or a
\* file with its home page.
ReconnectFriendResponses(o) ==
  {Rejects,
   Responds(TRUE, JsonBody(MakeFile(o, Abs(o, "/"), << >>, <<Rel("/")>>, << >>),
                           NoDeviation))}

\* The first run's own fetch settles, the site serving what it serves to
\* the second run (index.ts 276-291).
FirstSelfFetchSettles ==
  /\ pc = "fetching"
  /\ \E response \in ReconnectResponses : SelfFetchSettled(element, response)
  /\ UNCHANGED <<graphBefore, origins, fetchLog, responses, results, settleOrder,
                 mergeIdx, warnings, returned>>

\* connectedCallback once more, after a disconnection (index.ts 262-276):
\* the earlier run may still be suspended at one of its awaits.
Reconnect ==
  /\ ~element.connected
  /\ element.connects = 1
  /\ element.second.pc = "none"
  /\ Suspended
  /\ element' = [Attached(element) EXCEPT !.second.pc = "fetching"]
  /\ UNCHANGED <<pc, selfFile, graph, graphBefore, origins, fetchLog, responses, results,
                 settleOrder, mergeIdx, warnings, returned>>

\* The second run from the settling of its fetch to the await of
\* fetchFriendGraphs (index.ts 276-292): the graph it builds is a new one,
\* instance 2, assigned to the element's field.
SecondSelfFetchSettles ==
  /\ element.second.pc = "fetching"
  /\ Suspended
  /\ \E response \in ReconnectResponses :
       LET accepted == ReachesBuildGraph(response)
           data == response.body.content
           config == ResolveConfig(element.attributes)
           built == BuildGraphOf(data, config)
           os == FriendOrigins(data.friends)
       IN element' =
            IF accepted /\ ~built.threw
              THEN [element EXCEPT
                      !.graph = 2,
                      !.second = [pc |-> "awaiting",
                                  graph |-> [built.graph EXCEPT !.instance = 2],
                                  fetchLog |-> [i \in 1..Len(os) |-> FetchUrl(os[i])]]]
              ELSE [element EXCEPT
                      !.second.pc = "ended",
                      !.errors = @ \o SelfErrors(response, accepted /\ built.threw)]
  /\ UNCHANGED <<pc, selfFile, graph, graphBefore, origins, fetchLog, responses, results,
                 settleOrder, mergeIdx, warnings, returned>>

\* The fetches of the second run have settled: its fetchFriendGraphs merges
\* the results into its graph and returns (index.ts 181-241).
SecondFetchFriendGraphsReturns ==
  /\ element.second.pc = "awaiting"
  /\ Suspended
  /\ LET n == Len(element.second.fetchLog)
         config == ResolveConfig(element.attributes)
     IN \E answers \in [1..n -> UNION {ReconnectFriendResponses(o) : o \in FriendOriginSet}] :
          /\ \A i \in 1..n :
               answers[i] \in ReconnectFriendResponses(element.second.fetchLog[i][1])
          /\ LET taskResults == AllSettled([i \in 1..n |-> FetchTask(answers[i])]) IN
             /\ element' =
                  [element EXCEPT
                     !.second.pc = "returned",
                     !.second.graph = MergeLoop(@, taskResults, config, 1)]
             /\ warnings' =
                  warnings \o
                  [i \in 1..Cardinality({j \in 1..n : taskResults[j].status = "rejected"})
                     |-> <<"fetch failed", "reason">>]
  /\ UNCHANGED <<pc, selfFile, graph, graphBefore, origins, fetchLog, responses, results,
                 settleOrder, mergeIdx, returned>>

\* The second run after its await of fetchFriendGraphs (index.ts 293-297):
\* assignLayout on the graph the element's field refers to, then
\* initRenderer, which assigns the renderer field.
SecondFinishes ==
  /\ element.second.pc = "returned"
  /\ Suspended
  /\ IF element.graph = NoGraph.instance
       THEN /\ element' = [element EXCEPT
                             !.second.pc = "ended",
                             !.errors = @ \o <<"error during initialization">>]
            /\ UNCHANGED <<graph, warnings>>
       ELSE LET laidOut ==
                  IF element.graph = graph.instance
                    THEN [element EXCEPT !.second.pc = "ended"]
                    ELSE [element EXCEPT !.second.pc = "ended",
                                         !.second.graph = AssignLayoutOf(@)]
            IN /\ graph' = IF element.graph = graph.instance
                             THEN AssignLayoutOf(graph) ELSE graph
               /\ IF element.container = 0
                    THEN element' = laidOut /\ warnings' = warnings
                    ELSE \/ /\ element' =
                                 [laidOut EXCEPT
                                    !.sigmas =
                                      Append(@, [alive |-> TRUE, graph |-> element.graph,
                                                 container |-> element.container,
                                                 labelSize |->
                                                   ResolveConfig(element.attributes).labelSize]),
                                    !.renderer = Len(element.sigmas) + 1]
                            /\ warnings' = warnings
                         \/ /\ warnings' =
                                 Append(warnings, <<"could not initialize Sigma renderer",
                                                    "error">>)
                            /\ element' = laidOut
  /\ UNCHANGED <<pc, selfFile, graphBefore, origins, fetchLog, responses, results,
                 settleOrder, mergeIdx, returned>>

\* The element connected, disconnected and connected again, the first run
\* of connectedCallback going on beside the second.
NextReconnect ==
  \/ ConnectedCallbackBegins
  \/ FirstSelfFetchSettles
  \/ CallFetchFriendGraphs
  \/ FetchSettles
  \/ MergeResult
  \/ Return
  \/ AssignLayout
  \/ InitRenderer
  \/ DisconnectedCallback
  \/ Reconnect
  \/ SecondSelfFetchSettles
  \/ SecondFetchFriendGraphsReturns
  \/ SecondFinishes

SpecReconnect == Init /\ [][NextReconnect]_vars

\* The element with an attribute set by the page, connected on a site
\* without friends: resolveConfig, buildGraph, layout and renderer.
NextConfig ==
  \/ SetAttribute
  \/ ConnectedCallbackFriendless
  \/ CallFetchFriendGraphs
  \/ Return
  \/ AssignLayout
  \/ InitRenderer

SpecConfig == Init /\ [][NextConfig]_vars

\* The same with the scheduling the runtime gives: every issued fetch
\* settles in the end, and code that can run does.
SpecReturns ==
  SpecElement /\ WF_vars(FetchSettles) /\ WF_vars(MergeResult) /\ WF_vars(Return)

\* ------------------------------------------------------------- vocabulary
\* Provenance is the node's colour: localNodeColor is Local, friendNodeColor
\* is Friend.  This version of the configuration has no frontier colour; a
\* node that carries neither colour (buildGraph and fetchFriendGraphs give
\* such a node no colour at all) is the unconfirmed class, Frontier.
Provenance(g, u) ==
  LET n == g.nodes[u] IN
  IF "color" \in DOMAIN n /\ n.color = Config.localNodeColor THEN "Local"
  ELSE IF "color" \in DOMAIN n /\ n.color = Config.friendNodeColor THEN "Friend"
  ELSE "Frontier"

HasTitle(g, u, title) == "title" \in DOMAIN g.nodes[u] /\ g.nodes[u].title = title

\* The canonical URLs a file's nodes list declares.
DeclaredUrls(file) ==
  {NewURL(file.nodes[i].url, file.base_url) : i \in 1..Len(file.nodes)} \ {InvalidUrl}

\* The canonical URLs a file's edges have as targets.
EdgeTargets(file) ==
  {NewURL(file.edges[i].target, file.base_url) : i \in 1..Len(file.edges)} \ {InvalidUrl}

\* Every URL of the file resolves: base_url, node urls, edge sources and targets.
Resolvable(file) ==
  /\ \A i \in 1..Len(file.nodes) : NewURL(file.nodes[i].url, file.base_url) # InvalidUrl
  /\ \A i \in 1..Len(file.edges) :
       /\ NewURL(file.edges[i].source, file.base_url) # InvalidUrl
       /\ NewURL(file.edges[i].target, file.base_url) # InvalidUrl
  /\ ParseAbsolute(file.base_url) # InvalidUrl

\* The title of the last entry of the file's nodes list that resolves to u.
LastTitle(file, u) ==
  LET is == {i \in 1..Len(file.nodes) : NewURL(file.nodes[i].url, file.base_url) = u}
      last == CHOOSE i \in is : \A j \in is : j <= i
  IN file.nodes[last].title

Built == pc \in {"built", "awaiting", "merging", "done"}
Called == pc \in {"awaiting", "merging", "done"}

\* Fetch i failed: a network rejection, a non-OK status, a body that is not
\* JSON or that isGraphGardenFile rejects.
FetchFailed(i) ==
  \/ responses[i].kind = "rejects"
  \/ /\ responses[i].kind = "responds"
     /\ \/ ~responses[i].ok
        \/ ~responses[i].body.json
        \/ ~IsGraphGardenFile(responses[i].body)

\* Fetch i returned a validated file.
FetchValidated(i) ==
  /\ responses[i].kind = "responds"
  /\ responses[i].ok
  /\ responses[i].body.json
  /\ IsGraphGardenFile(responses[i].body)

\* Fetch i returned a validated file all of whose URLs resolve.
FetchValid(i) == FetchValidated(i) /\ Resolvable(responses[i].body.content)

\* Every node the file declares is in g, Friend.
NodesPresent(g, file) ==
  \A u \in DeclaredUrls(file) : HasNode(g, u) /\ Provenance(g, u) = "Friend"

\* Every node the file declares carries the title the file gives it.
TitlesPresent(g, file) ==
  \A u \in DeclaredUrls(file) : HasNode(g, u) /\ HasTitle(g, u, LastTitle(file, u))

\* Every edge the file declares is in g.
EdgesPresent(g, file) ==
  \A i \in 1..Len(file.edges) :
    HasDirectedEdge(g, NewURL(file.edges[i].source, file.base_url),
                       NewURL(file.edges[i].target, file.base_url))

\* ------------------------------------------------------------------ claims

C3_AllFailedNoChange ==
  (pc = "done" /\ \A i \in 1..Len(origins) : FetchFailed(i)) => graph = graphBefore

C3_Witness ==
  /\ pc = "done"
  /\ Len(origins) = 2
  /\ responses[1].kind = "responds" /\ ~responses[1].ok
  /\ responses[2].kind = "responds" /\ responses[2].ok /\ responses[2].body.json
  /\ ~IsGraphGardenFile(responses[2].body)
  /\ Order(graph) > 0
  /\ graph = graphBefore

\* C4: the call issues exactly one fetch per distinct origin among the
\* parseable friends, at origin + WELL_KNOWN_PATH, and none is added later.
ParseableOrigins ==
  {OriginOf(selfFile.friends[i]) : i \in 1..Len(selfFile.friends)} \ {"TypeError"}

C4_OneFetchPerOrigin ==
  /\ ~Called => fetchLog = << >>
  /\ Called =>
       /\ Len(fetchLog) = Cardinality(ParseableOrigins)
       /\ \A o \in ParseableOrigins :
            Cardinality({i \in 1..Len(fetchLog) : fetchLog[i] = <<o, WELL_KNOWN_PATH>>}) = 1

C4_Witness ==
  /\ pc = "done"
  /\ Len(selfFile.friends) = 2
  /\ selfFile.friends[1] # selfFile.friends[2]
  /\ Cardinality(ParseableOrigins) = 1
  /\ Len(fetchLog) = 1
  /\ FetchFailed(1)

\* C5: once the merge loop has processed a validated file whose URLs all
\* resolve, every node it declares is in the graph under its URL resolved
\* against the file's own base_url, with the declared title and Friend
\* provenance, and stays there, Friend, to the end of the call; the first
\* merge adds no node other than the URLs the file names.
FileUrls(file) ==
  DeclaredUrls(file) \cup EdgeTargets(file) \cup
  ({NewURL(file.edges[i].source, file.base_url) : i \in 1..Len(file.edges)} \ {InvalidUrl})

C5_FriendNodesMerged ==
  /\ \A k \in 1..mergeIdx :
       FetchValid(k) => NodesPresent(graph, responses[k].body.content)
  /\ (pc = "merging" /\ mergeIdx >= 1 /\ FetchValid(mergeIdx))
       => TitlesPresent(graph, responses[mergeIdx].body.content)
  /\ (mergeIdx = 1 /\ FetchValid(1))
       => DOMAIN graph.nodes =
            DOMAIN graphBefore.nodes \cup FileUrls(responses[1].body.content)

C5_Witness ==
  /\ pc = "merging"
  /\ mergeIdx = 1
  /\ FetchValid(1)
  /\ \E u \in DeclaredUrls(responses[1].body.content) :
       /\ HasNode(graphBefore, u)
       /\ Provenance(graphBefore, u) = "Frontier"
       /\ Provenance(graph, u) = "Friend"
       /\ u[1] # LocalOrigin
       /\ Order(graph) = Order(graphBefore)

\* C6: in the graph buildGraph returns, every node that is not declared in
\* the self file's nodes list has provenance Frontier.
C6_UndeclaredIsFrontier ==
  pc = "built" =>
    \A u \in DOMAIN graph.nodes \ DeclaredUrls(selfFile) :
      Provenance(graph, u) = "Frontier"

\* C7: after the call, every node of an origin whose fetch failed that the
\* self file names only as an edge target is in the graph, Frontier.
C7_FailedStaysFrontier ==
  pc = "done" =>
    \A i \in 1..Len(origins) :
      FetchFailed(i) =>
        \A u \in EdgeTargets(selfFile) \ DeclaredUrls(selfFile) :
          u[1] = origins[i] => HasNode(graph, u) /\ Provenance(graph, u) = "Frontier"

\* C8: each entry of the self file's nodes list is in the graph buildGraph
\* returns under its resolved URL, with its title and provenance Local,
\* whatever the edges.
C8_DeclaredIsLocal ==
  pc = "built" =>
    \A u \in DeclaredUrls(selfFile) :
      /\ HasNode(graph, u)
      /\ HasTitle(graph, u, LastTitle(selfFile, u))
      /\ Provenance(graph, u) = "Local"

\* C9 as written: the order of the graph buildGraph returns is at least the
\* number of entries of the nodes list.
C9_OrderAtLeastEntries == pc = "built" => Order(graph) >= Len(selfFile.nodes)

\* C9 amended: the order is at least the number of distinct canonical URLs
\* among the entries of the nodes list.
C9_OrderAtLeastDistinct ==
  pc = "built" => Order(graph) >= Cardinality(DeclaredUrls(selfFile))

C9_Witness ==
  /\ pc = "built"
  /\ Len(selfFile.nodes) = 2
  /\ Cardinality(DeclaredUrls(selfFile)) = 1
  /\ selfFile.nodes[1].url # selfFile.nodes[2].url
  /\ Order(graph) = 1

\* C10: the graph after the call is determined by the graph before it and
\* the origins' outcomes taken in the order of the origins, whatever the
\* order in which the fetches settled.
RECURSIVE MergedInOriginOrder(_, _)
MergedInOriginOrder(g, i) ==
  IF i > Len(origins) THEN g
  ELSE MergedInOriginOrder(MergeResultInto(g, FetchTask(responses[i]), Config), i + 1)

C10_SettleOrderIrrelevant ==
  pc = "done" => graph = MergedInOriginOrder(graphBefore, 1)

C10_Witness ==
  /\ pc = "done"
  /\ settleOrder = <<2, 1>>
  /\ FetchValid(1) /\ FetchValid(2)
  /\ \E u \in DeclaredUrls(responses[1].body.content) :
       u \in DeclaredUrls(responses[2].body.content)

\* C11: merging two valid friend files into the graph in one order gives the
\* same node set, edge set, titles, provenance and edge types as merging
\* them in the other order.
TitleOf(g, u) ==
  IF "title" \in DOMAIN g.nodes[u] THEN g.nodes[u].title ELSE <<"untitled", 0>>

SameContent(g1, g2) ==
  /\ DOMAIN g1.nodes = DOMAIN g2.nodes
  /\ DOMAIN g1.edges = DOMAIN g2.edges
  /\ \A u \in DOMAIN g1.nodes :
       /\ TitleOf(g1, u) = TitleOf(g2, u)
       /\ Provenance(g1, u) = Provenance(g2, u)
  /\ \A e \in DOMAIN g1.edges : g1.edges[e].type = g2.edges[e].type

C11_MergeCommutes ==
  \A a, b \in 1..Len(origins) :
    (a # b /\ FetchValid(a) /\ FetchValid(b)) =>
      LET fileA == responses[a].body.content
          fileB == responses[b].body.content
      IN SameContent(
           MergeFriendFile(MergeFriendFile(graphBefore, fileA, Config), fileB, Config),
           MergeFriendFile(MergeFriendFile(graphBefore, fileB, Config), fileA, Config))

\* C12: merging the same file a second time changes nothing: the self
\* file's node and edge merges applied again to the graph buildGraph
\* returned, a friend file merged again right after its merge, and a second
\* fetchFriendGraphs call with the same responses all leave the graph as it
\* was, in order, size and every attribute.
SelfMergedAgain(g) ==
  LET afterNodes == BuildNodes(g, selfFile, Config, 1)
  IN IF afterNodes.threw THEN afterNodes.graph
     ELSE BuildEdges(afterNodes.graph, selfFile, Config, 1).graph

C12_MergeIdempotent ==
  /\ pc = "built" => SelfMergedAgain(graph) = graph
  /\ (pc = "merging" /\ mergeIdx >= 1 /\ results[mergeIdx].isFile)
       => MergeFriendFile(graph, results[mergeIdx].value, Config) = graph
  /\ pc = "done" => MergedInOriginOrder(graph, 1) = graph

C12_Witness ==
  /\ pc = "done"
  /\ Len(origins) = 2
  /\ FetchValid(1) /\ FetchValid(2)
  /\ Len(responses[1].body.content.edges) > 0
  /\ Len(responses[2].body.content.nodes) > 0
  /\ Len(selfFile.edges) > 0
  /\ graph # graphBefore
  /\ MergedInOriginOrder(graph, 1) = graph

\* C13: nothing of a fetched body enters the graph unless the body passed
\* isGraphGardenFile: the merge loop changes the graph only in an iteration
\* whose response was OK with a validated body, every node fetchFriendGraphs
\* added is named by such a body, and the file the element built the graph
\* from came from an OK response whose body was validated.
ValidatedUrls ==
  UNION {FileUrls(responses[k].body.content) :
           k \in {i \in 1..mergeIdx : FetchValidated(i)}}

SelfWasValidated ==
  (element.fetched.kind # "none" /\ pc \notin {"start", "aborted"}) =>
    /\ element.fetched.kind = "responds"
    /\ element.fetched.ok
    /\ element.fetched.body.json
    /\ IsGraphGardenFile(element.fetched.body)
    /\ selfFile = element.fetched.body.content

MergedOnlyValidated ==
  Called => DOMAIN graph.nodes \subseteq DOMAIN graphBefore.nodes \cup ValidatedUrls

C13_ValidationGate ==
  /\ [](SelfWasValidated /\ MergedOnlyValidated)
  /\ [][(pc = "merging" /\ graph' # graph) => FetchValidated(mergeIdx + 1)]_vars

C13_Witness ==
  /\ pc = "done"
  /\ element.accepted
  /\ Len(origins) = 2
  /\ \E i, j \in 1..2 :
       /\ responses[i].kind = "responds" /\ responses[i].ok /\ responses[i].body.json
       /\ ~IsGraphGardenFile(responses[i].body)
       /\ FetchValidated(j)
  /\ graph # graphBefore

\* The shape the protocol asks of a decoded value: a non-null object whose
\* version, generated_at and base_url are strings, whose site is an object
\* with a string title and description and language absent or strings, whose
\* friends is absent or an array of strings, whose nodes is an array of
\* objects with string url and title, and whose edges is an array of
\* objects with string source and target and type "internal" or "friend".
EntryKind(body, path, i) == IF i = 1 THEN KindAt(body, path) ELSE NaturalKind(path)

Conforms(body) ==
  /\ KindAt(body, "value") = "object"
  /\ \A path \in {"version", "generated_at", "base_url", "site.title"} :
       KindAt(body, path) = "string"
  /\ KindAt(body, "site") = "object"
  /\ \A path \in {"site.description", "site.language"} :
       KindAt(body, path) \in {"absent", "string"}
  /\ \/ KindAt(body, "friends") = "absent"
     \/ /\ KindAt(body, "friends") = "array"
        /\ \A i \in 1..Len(body.content.friends) :
             EntryKind(body, "friends[]", i) = "string"
  /\ KindAt(body, "nodes") = "array"
  /\ \A i \in 1..Len(body.content.nodes) :
       /\ EntryKind(body, "nodes[]", i) = "object"
       /\ EntryKind(body, "nodes[].url", i) = "string"
       /\ EntryKind(body, "nodes[].title", i) = "string"
  /\ KindAt(body, "edges") = "array"
  /\ \A i \in 1..Len(body.content.edges) :
       /\ EntryKind(body, "edges[]", i) = "object"
       /\ EntryKind(body, "edges[].source", i) = "string"
       /\ EntryKind(body, "edges[].target", i) = "string"
       /\ ~(i = 1 /\ body.deviation[1] = "edges[].type")
       /\ body.content.edges[i].type \in {"internal", "friend"}

\* The element decoded a body and handed it to isGraphGardenFile.
SelfDecoded ==
  /\ element.fetched.kind = "responds"
  /\ element.fetched.ok
  /\ element.fetched.body.json

\* C14: isGraphGardenFile returns true only for a value of the protocol's
\* shape: every body it let through to buildGraph conforms.
C14_RejectsDeviations ==
  (SelfDecoded /\ element.accepted) => Conforms(element.fetched.body)

C14_Witness ==
  /\ pc = "aborted"
  /\ SelfDecoded
  /\ element.fetched.body.deviation = <<"nodes[].title", "number">>
  /\ ~element.accepted
  /\ ~Conforms(element.fetched.body)

\* C15: isGraphGardenFile returns true for every value of the protocol's
\* shape, the one without a friends field included: every conforming body
\* the element decoded was let through to buildGraph.
C15_AcceptsConforming ==
  (SelfDecoded /\ Conforms(element.fetched.body)) => element.accepted

\* C16: once a validated, resolvable friend file with an edge whose target
\* resolves to a node that was Local before the call has been merged, the
\* edge from the friend's node to that node is in the graph and the node
\* has no second key (none that is not an href in canonical form, relative
\* paths included); after the first merge the order has grown by exactly
\* the URLs of the file the graph did not have.
CanonicalKey(key) ==
  /\ key[1] \in AllOrigins
  /\ key[2] # ""

WasLocal(u) == HasNode(graphBefore, u) /\ Provenance(graphBefore, u) = "Local"

C16_BackEdgeNoDuplicate ==
  \A k \in 1..mergeIdx :
    FetchValid(k) =>
      LET file == responses[k].body.content IN
      \A i \in 1..Len(file.edges) :
        LET source == NewURL(file.edges[i].source, file.base_url)
            target == NewURL(file.edges[i].target, file.base_url)
        IN WasLocal(target) =>
             /\ HasDirectedEdge(graph, source, target)
             /\ \A key \in DOMAIN graph.nodes : CanonicalKey(key)
             /\ mergeIdx = 1 =>
                  Order(graph) = Order(graphBefore)
                    + Cardinality(FileUrls(file) \ DOMAIN graphBefore.nodes)

C16_Witness ==
  /\ pc = "merging"
  /\ mergeIdx = 1
  /\ FetchValid(1)
  /\ LET file == responses[1].body.content IN
     /\ Len(file.edges) = 1
     /\ file.edges[1].target = Abs(LocalOrigin, "")
     /\ WasLocal(NewURL(file.edges[1].target, file.base_url))
     /\ HasDirectedEdge(graph, NewURL(file.edges[1].source, file.base_url),
                        <<LocalOrigin, "/">>)
  /\ Order(graphBefore) = 1
  /\ Order(graph) = 2

\* C17: no error leaves fetchFriendGraphs, whatever the friends list and the
\* outcomes of the fetches: the call is never in the rejected state, and
\* what it resolved to is a graph whose edges all join nodes of the graph.
Usable(g) ==
  /\ g.instance # NoGraph.instance
  /\ \A e \in DOMAIN g.edges : HasNode(g, e[1]) /\ HasNode(g, e[2])

C17_NeverRejects ==
  /\ pc # "rejected"
  /\ pc = "done" => Usable(returned)

C17_Witness ==
  /\ pc = "done"
  /\ \E i \in 1..Len(selfFile.friends) : OriginOf(selfFile.friends[i]) = "TypeError"
  /\ Len(origins) = 1
  /\ FetchValidated(1)
  /\ ~Resolvable(responses[1].body.content)
  /\ Len(responses[1].body.content.edges) > 0
  /\ \E i \in 1..Len(warnings) : warnings[i][1] = "failed to merge friend file"
  /\ Usable(returned)

\* C18: what fetchFriendGraphs resolves to is the graph object it was given,
\* with the merges made in it, for every outcome of the fetches.
C18_ReturnsSameInstance ==
  pc = "done" =>
    /\ returned.instance = graphBefore.instance
    /\ returned = graph

C18_Witness ==
  /\ pc = "done"
  /\ Len(origins) = 2
  /\ FetchFailed(1)
  /\ FetchValid(2)
  /\ graph # graphBefore
  /\ returned = graph
  /\ returned.instance = graphBefore.instance

\* C19: fetchFriendGraphs goes on to its merge loop only when every fetch it
\* issued has settled, and, every issued fetch settling in the end, every
\* call that was made returns.
C19_EventuallyReturns ==
  /\ [](pc \in {"merging", "done"} =>
          \A i \in 1..Len(responses) : responses[i].kind # "pending")
  /\ (pc \in {"awaiting", "merging"}) ~> (pc = "done")

C19_Witness ==
  /\ pc = "done"
  /\ Len(origins) = 2
  /\ settleOrder = <<2, 1>>
  /\ responses[1].kind = "rejects"
  /\ FetchValid(2)

\* C20: when the friends list has an entry that does not parse as a URL,
\* the call warns once per such entry, issues no fetch for it, issues the
\* fetch of every other entry's origin, and has merged the valid files of
\* those origins when it returns.
UnparseableFriends ==
  {i \in 1..Len(selfFile.friends) : OriginOf(selfFile.friends[i]) = "TypeError"}

C20_InvalidFriendDropped ==
  (Called /\ UnparseableFriends # {}) =>
    /\ \A i \in UnparseableFriends :
         \E w \in 1..Len(warnings) :
           warnings[w] = <<"invalid friend URL", selfFile.friends[i]>>
    /\ Cardinality({w \in 1..Len(warnings) : warnings[w][1] = "invalid friend URL"})
         = Cardinality(UnparseableFriends)
    /\ \A i \in 1..Len(fetchLog) : fetchLog[i][1] \in ParseableOrigins
    /\ \A i \in 1..Len(selfFile.friends) \ UnparseableFriends :
         \E f \in 1..Len(fetchLog) :
           fetchLog[f] = <<OriginOf(selfFile.friends[i]), WELL_KNOWN_PATH>>
    /\ pc = "done" =>
         \A k \in 1..Len(origins) :
           FetchValid(k) => NodesPresent(graph, responses[k].body.content)

C20_Witness ==
  /\ pc = "done"
  /\ Len(selfFile.friends) = 2
  /\ UnparseableFriends = {1}
  /\ warnings[1] = <<"invalid friend URL", selfFile.friends[1]>>
  /\ Len(fetchLog) = 1
  /\ FetchValid(1)
  /\ Len(responses[1].body.content.nodes) > 0
  /\ NodesPresent(graph, responses[1].body.content)

\* C21: a node url of the site's own file that does not resolve against
\* base_url is skipped: once the file passed validation the element holds a
\* graph, and every node of the file whose url resolves is in it.
C21_UnresolvableSelfSkipped ==
  element.accepted =>
    /\ element.graph # NoGraph.instance
    /\ \A u \in DeclaredUrls(selfFile) : HasNode(graph, u)

\* The origins of the targets of the file's friend-typed edges.
FriendEdgeOrigins(file) ==
  {OriginOf(file.edges[i].target) :
     i \in {j \in 1..Len(file.edges) : file.edges[j].type = "friend"}} \ {"TypeError"}

\* C22: when the site's own file has no friends field, connectedCallback goes
\* on and fetchFriendGraphs fetches the origins of the targets of the file's
\* friend-typed edges.
C22_FriendsFallback ==
  LET body == element.fetched.body IN
  (/\ SelfDecoded
   /\ Conforms(body)
   /\ KindAt(body, "friends") = "absent"
   /\ FriendEdgeOrigins(body.content) # {}) =>
     /\ pc # "aborted"
     /\ Called =>
          \A o \in FriendEdgeOrigins(body.content) :
            \E f \in 1..Len(fetchLog) : fetchLog[f] = <<o, WELL_KNOWN_PATH>>

\* C23: fetchFriendGraphs gives Local provenance to no node: a node that is
\* Local during or after the call was Local before it.
C23_NeverPromotesToLocal ==
  Called =>
    \A u \in DOMAIN graph.nodes :
      Provenance(graph, u) = "Local" => WasLocal(u)

\* A friend file was merged whose internal link created its target, a node
\* that is not Local, while the local home page it did not touch stays Local.
C23_Witness ==
  /\ pc = "done"
  /\ \E k \in 1..Len(origins) :
       /\ FetchValid(k)
       /\ \E i \in 1..Len(responses[k].body.content.edges) :
            LET file == responses[k].body.content
                target == NewURL(file.edges[i].target, file.base_url)
            IN /\ file.edges[i].type = "internal"
               /\ ~HasNode(graphBefore, target)
               /\ HasNode(graph, target)
               /\ Provenance(graph, target) # "Local"
  /\ \E u \in DOMAIN graph.nodes : WasLocal(u) /\ Provenance(graph, u) = "Local"

\* C24: no step turns a node into Frontier: a node that is Frontier after a
\* step did not exist before the step or was Frontier already, so a Friend
\* node stays Friend through every later merge of a node or an edge.
C24_FrontierOnlyForAbsent ==
  [][\A u \in DOMAIN graph'.nodes :
       Provenance(graph', u) = "Frontier" =>
         (~HasNode(graph, u) \/ Provenance(graph, u) = "Frontier")]_vars

\* A friend file declared its home page, then named it as the source of an
\* internal link: the page is Friend after the edge merge, and the link's
\* target, absent before, is Frontier.
C24_Witness ==
  /\ pc = "done"
  /\ \E k \in 1..Len(origins) :
       /\ FetchValid(k)
       /\ LET file == responses[k].body.content IN
          /\ Len(file.nodes) = 1
          /\ Len(file.edges) = 1
          /\ file.edges[1].type = "internal"
          /\ NewURL(file.edges[1].source, file.base_url)
               = NewURL(file.nodes[1].url, file.base_url)
          /\ Provenance(graph, NewURL(file.edges[1].source, file.base_url)) = "Friend"
          /\ ~HasNode(graphBefore, NewURL(file.edges[1].target, file.base_url))
          /\ Provenance(graph, NewURL(file.edges[1].target, file.base_url)) = "Frontier"

\* The canonical URLs declared in the nodes list of the self file or of a
\* friend file that was fetched and validated.
DeclaredByAnyone ==
  DeclaredUrls(selfFile) \cup
  UNION {DeclaredUrls(responses[k].body.content) :
           k \in {j \in 1..Len(origins) : FetchValidated(j)}}

\* C25: when fetchFriendGraphs has returned, every node the call created
\* that no nodes list declares, the self file's or a fetched friend file's,
\* has provenance Frontier.
C25_EdgeOnlyIsFrontier ==
  pc = "done" =>
    \A u \in DOMAIN graph.nodes \ DeclaredByAnyone :
      ~HasNode(graphBefore, u) => Provenance(graph, u) = "Frontier"

\* C26: the target of a friend-typed edge of a merged friend file, when the
\* merge created it, is in the graph with size config.nodeSize and colour
\* config.friendNodeColor.
C26_FriendOfFriendAttrs ==
  \A k \in 1..mergeIdx :
    FetchValid(k) =>
      LET file == responses[k].body.content IN
      \A i \in 1..Len(file.edges) :
        LET target == NewURL(file.edges[i].target, file.base_url) IN
        (file.edges[i].type = "friend" /\ ~HasNode(graphBefore, target)) =>
          /\ HasNode(graph, target)
          /\ graph.nodes[target].size = Config.nodeSize
          /\ "color" \in DOMAIN graph.nodes[target]
          /\ graph.nodes[target].color = Config.friendNodeColor

\* One friend file was merged; its friend-typed link goes to a site nobody
\* declares a page of, and the target has the size and the friend colour.
C26_Witness ==
  /\ pc = "done"
  /\ Len(origins) = 1
  /\ FetchValid(1)
  /\ LET file == responses[1].body.content IN
     /\ Len(file.edges) = 1
     /\ file.edges[1].type = "friend"
     /\ LET target == NewURL(file.edges[1].target, file.base_url) IN
        /\ target \notin DeclaredByAnyone
        /\ ~HasNode(graphBefore, target)
        /\ graph.nodes[target] = [size |-> Config.nodeSize,
                                  color |-> Config.friendNodeColor]

\* The ordered pairs (canonical source, canonical target) of the file's edges.
ResolvedPairs(file) ==
  {<<NewURL(file.edges[i].source, file.base_url),
     NewURL(file.edges[i].target, file.base_url)>> : i \in 1..Len(file.edges)}

\* The last entry of the file's edges list that resolves to the pair.
LastEdge(file, pair) ==
  LET is == {i \in 1..Len(file.edges) :
               <<NewURL(file.edges[i].source, file.base_url),
                 NewURL(file.edges[i].target, file.base_url)>> = pair}
      last == CHOOSE i \in is : \A j \in is : j <= i
  IN file.edges[last]

\* C27: the graph buildGraph returns has one directed edge per ordered pair
\* of resolved endpoints its file names, however often the file names the
\* pair, and the edge carries the type and colour of the pair's last
\* declaration.
C27_OneEdgePerPair ==
  pc = "built" =>
    /\ DOMAIN graph.edges = ResolvedPairs(selfFile)
    /\ Size(graph) = Cardinality(ResolvedPairs(selfFile))
    /\ \A pair \in ResolvedPairs(selfFile) :
         LET edge == LastEdge(selfFile, pair) IN
         graph.edges[pair] =
           [type |-> edge.type,
            color |-> IF edge.type = "friend"
                        THEN Config.friendEdgeColor ELSE Config.localEdgeColor,
            size |-> Config.edgeSize]

\* The file names one pair twice, as internal then as friend: one edge, of
\* type friend.
C27_Witness ==
  /\ pc = "built"
  /\ Len(selfFile.edges) = 2
  /\ Cardinality(ResolvedPairs(selfFile)) = 1
  /\ selfFile.edges[1].type = "internal"
  /\ selfFile.edges[2].type = "friend"
  /\ Size(graph) = 1
  /\ \A pair \in DOMAIN graph.edges : graph.edges[pair].type = "friend"

\* C28: right after disconnectedCallback the element's graph, renderer and
\* container are null, the renderer it had is killed, and its shadow root is
\* empty.
C28_DisconnectCleansUp ==
  [][(element.connected /\ ~element'.connected) =>
       /\ element'.graph = NoGraph.instance
       /\ element'.renderer = 0
       /\ element.renderer # 0 => ~element'.sigmas[element.renderer].alive
       /\ element'.container = 0
       /\ element'.shadow = << >>]_vars

\* The element was disconnected after its renderer had been created.
C28_Witness ==
  /\ ~element.connected
  /\ element.connects = 1
  /\ pc = "finished"
  /\ Len(element.sigmas) = 1
  /\ ~element.sigmas[1].alive
  /\ element.graph = NoGraph.instance
  /\ element.renderer = 0
  /\ element.container = 0
  /\ element.shadow = << >>

\* Every node has its coordinates.
LaidOut(g) == \A u \in DOMAIN g.nodes : {"x", "y"} \subseteq DOMAIN g.nodes[u]

\* Some node has a coordinate.
Placed(g) == \E u \in DOMAIN g.nodes : "x" \in DOMAIN g.nodes[u]

\* C29: within a connectedCallback run, the friend fetches are issued when
\* the self file has been fetched, validated and built into the graph, and
\* not before; the layout is computed when every friend fetch has settled and
\* been merged; the renderer is created after the layout, on a graph every
\* node of which has x and y.
C29_StepsInOrder ==
  /\ [][fetchLog' # fetchLog =>
          /\ pc = "built"
          /\ ReachesBuildGraph(element.fetched)
          /\ selfFile = element.fetched.body.content
          /\ ~BuildGraphOf(selfFile, Config).threw]_vars
  /\ [][(Placed(graph') /\ ~Placed(graph)) =>
          /\ pc = "done"
          /\ AllHaveSettled(results)
          /\ mergeIdx = Len(results)]_vars
  /\ [][Len(element'.sigmas) > Len(element.sigmas) =>
          /\ pc = "laidout"
          /\ Order(graph) > 0
          /\ LaidOut(graph)]_vars

\* The renderer was created on a graph that holds a local page and a
\* friend's page, both with coordinates, after a friend fetch.
C29_Witness ==
  /\ pc = "finished"
  /\ element.renderer # 0
  /\ element.sigmas[element.renderer].alive
  /\ Len(fetchLog) >= 1
  /\ \E k \in 1..Len(origins) : FetchValid(k)
  /\ \E u \in DOMAIN graph.nodes : Provenance(graph, u) = "Local"
  /\ \E u \in DOMAIN graph.nodes : Provenance(graph, u) = "Friend" /\ u[1] # LocalOrigin
  /\ LaidOut(graph)

\* The edges of the file that a merge puts in the graph, in order: none when
\* base_url or a node url does not resolve, otherwise those before the first
\* edge with an endpoint that does not resolve.
RECURSIVE EdgesBeforeThrow(_, _)
EdgesBeforeThrow(file, i) ==
  IF i > Len(file.edges) THEN << >>
  ELSE IF \/ NewURL(file.edges[i].source, file.base_url) = InvalidUrl
          \/ NewURL(file.edges[i].target, file.base_url) = InvalidUrl
    THEN << >>
  ELSE <<[pair |-> <<NewURL(file.edges[i].source, file.base_url),
                     NewURL(file.edges[i].target, file.base_url)>>,
          type |-> file.edges[i].type]>> \o EdgesBeforeThrow(file, i + 1)

MergedEdges(file) ==
  IF \E i \in 1..Len(file.nodes) : NewURL(file.nodes[i].url, file.base_url) = InvalidUrl
    THEN << >>
    ELSE EdgesBeforeThrow(file, 1)

\* The edge declarations merged so far, in the order of their merge: the
\* self file's, then those of the friend files merged up to k.
RECURSIVE FriendDeclarations(_)
FriendDeclarations(k) ==
  IF k = 0 THEN << >>
  ELSE FriendDeclarations(k - 1) \o
       (IF FetchValidated(k) THEN MergedEdges(responses[k].body.content) ELSE << >>)

Declarations ==
  (IF element.accepted THEN MergedEdges(selfFile) ELSE << >>) \o
  FriendDeclarations(mergeIdx)

\* C30: each edge of the element's graph has the type "internal" or
\* "friend", and it is the type of the last declaration merged for its pair,
\* whatever the provenance of its endpoints.
C30_EdgeTypeIsLastDeclared ==
  \A e \in DOMAIN graph.edges :
    /\ graph.edges[e].type \in EdgeTypes
    /\ \E i \in 1..Len(Declarations) :
         /\ Declarations[i].pair = e
         /\ Declarations[i].type = graph.edges[e].type
         /\ \A j \in (i + 1)..Len(Declarations) : Declarations[j].pair # e

\* The self file declared a link as internal, a friend file declared the
\* same link as friend afterwards: the edge is of type friend, between a
\* Frontier node and a node that is not Frontier.
C30_Witness ==
  /\ pc = "done"
  /\ element.connected
  /\ \E i, j \in 1..Len(Declarations) :
       /\ i < j
       /\ Declarations[i].pair = Declarations[j].pair
       /\ Declarations[i].type = "internal"
       /\ Declarations[j].type = "friend"
       /\ \A l \in (j + 1)..Len(Declarations) : Declarations[l].pair # Declarations[j].pair
       /\ graph.edges[Declarations[j].pair].type = "friend"
       /\ Provenance(graph, Declarations[j].pair[1]) = "Frontier"
       /\ Provenance(graph, Declarations[j].pair[2]) # "Frontier"

\* C31: the attributes base_url and site of the graph buildGraph returns are
\* the self file's, and they stay so through every friend merge.
C31_AttributesKept ==
  Built => graph.attrs = [base_url |-> selfFile.base_url, site |-> selfFile.site]

\* A friend file with its own base_url and site was merged, nodes and all,
\* and the attributes are the self file's.
C31_Witness ==
  /\ pc = "done"
  /\ \E k \in 1..Len(origins) :
       /\ FetchValid(k)
       /\ Len(responses[k].body.content.nodes) > 0
       /\ NodesPresent(graph, responses[k].body.content)
       /\ responses[k].body.content.site # selfFile.site
       /\ responses[k].body.content.base_url # selfFile.base_url
  /\ \E k \in 1..Len(origins) : FetchFailed(k)
  /\ graph.attrs = [base_url |-> selfFile.base_url, site |-> selfFile.site]

\* The value is a positive decimal numeral: digits, not all of them 0, after
\* an optional +, with white space around it at most.
IsDigit(c) == c \in Digits

PositiveNumeral(raw) ==
  \E a, b \in 0..Len(raw) :
    /\ a + b < Len(raw)
    /\ \A i \in 1..a : raw[i] = " "
    /\ \A i \in (Len(raw) - b + 1)..Len(raw) : raw[i] = " "
    /\ LET core == SubSeq(raw, a + 1, Len(raw) - b)
           digits == IF core[1] = "+" THEN Tail(core) ELSE core
       IN /\ digits # << >>
          /\ \A i \in 1..Len(digits) : digits[i] \in Digits
          /\ \E i \in 1..Len(digits) : digits[i] # "0"

\* What the claim gives the config field of attribute `name`.
ExpectedSetting(name) ==
  LET attribute == element.attributes[name] IN
  IF attribute.present /\ PositiveNumeral(attribute.raw)
    THEN 10 * DecimalValue(SelectSeq(attribute.raw, IsDigit))
    ELSE DEFAULT_CONFIG[ConfigField(name)]

\* C32: resolveConfig takes each numeric attribute from the element when it
\* is present and is a finite number above zero, and the default otherwise;
\* every node and every edge of the built graph has a size above zero, the
\* config's.
C32_NumericAttributes ==
  /\ \A name \in AttributeNames :
       /\ ResolveConfig(element.attributes)[ConfigField(name)] = ExpectedSetting(name)
       /\ ResolveConfig(element.attributes)[ConfigField(name)] > 0
  /\ Built =>
       /\ \A u \in DOMAIN graph.nodes :
            graph.nodes[u].size = ExpectedSetting("node-size") /\ graph.nodes[u].size > 0
       /\ \A e \in DOMAIN graph.edges :
            graph.edges[e].size = ExpectedSetting("edge-size") /\ graph.edges[e].size > 0
  /\ \A i \in 1..Len(element.sigmas) :
       element.sigmas[i].labelSize = ExpectedSetting("label-size")

\* edge-size="0": the built graph's edge has the default size.
C32_Witness ==
  /\ pc = "finished"
  /\ element.attributes["edge-size"] = Attribute(<<"0">>)
  /\ Size(graph) = 1
  /\ \A e \in DOMAIN graph.edges : graph.edges[e].size = DEFAULT_CONFIG.edgeSize
  /\ Order(graph) = 2

\* The pairs of the edges of friend files merged so far.
FriendPairs ==
  UNION {ResolvedPairs(responses[k].body.content) :
           k \in {j \in 1..mergeIdx : FetchValid(j)}}

\* C33: an edge merged from a fetched friend file has the colour
\* config.friendEdgeColor whether its type is internal or friend; an edge of
\* the self file, as long as no friend file names its pair, has
\* config.localEdgeColor when internal and config.friendEdgeColor when friend.
C33_EdgeColours ==
  /\ \A pair \in FriendPairs :
       /\ HasDirectedEdge(graph, pair[1], pair[2])
       /\ graph.edges[pair].color = Config.friendEdgeColor
  /\ Built =>
       \A pair \in ResolvedPairs(selfFile) \ FriendPairs :
         /\ HasDirectedEdge(graph, pair[1], pair[2])
         /\ graph.edges[pair].color =
              IF LastEdge(selfFile, pair).type = "friend"
                THEN Config.friendEdgeColor ELSE Config.localEdgeColor

\* A friend file's internal edge is in the graph with the friend edge
\* colour, next to the self file's friend edge with the same colour.
C33_Witness ==
  /\ pc = "done"
  /\ \E k \in 1..Len(origins) :
       /\ FetchValid(k)
       /\ Len(responses[k].body.content.edges) = 1
       /\ responses[k].body.content.edges[1].type = "internal"
       /\ \A pair \in ResolvedPairs(responses[k].body.content) :
            graph.edges[pair] = [type |-> "internal", color |-> Config.friendEdgeColor,
                                 size |-> Config.edgeSize]
  /\ \E pair \in ResolvedPairs(selfFile) \ FriendPairs :
       graph.edges[pair].type = "friend"

\* A fetch of the call has not settled yet.
InFlight == \E i \in 1..Len(results) : results[i].status = "pending"

\* C34: within a fetchFriendGraphs call no merge touches the graph while one
\* of the call's fetches is in flight, and the graph changes by the merge of
\* one friend file at a time, the next one in the order of the origins.
C34_MergesAfterAllSettled ==
  [][(pc \in {"awaiting", "merging"} /\ graph' # graph) =>
       /\ ~InFlight
       /\ \A i \in 1..Len(origins) : responses[i].kind # "pending"
       /\ mergeIdx' = mergeIdx + 1
       /\ FetchValidated(mergeIdx')
       /\ graph' = MergeFriendFile(graph, responses[mergeIdx'].body.content, Config)]_vars

\* Two friend files were fetched, the second settled first, and both were
\* merged after that, one after the other.
C34_Witness ==
  /\ pc = "merging"
  /\ mergeIdx = 2
  /\ settleOrder = <<2, 1>>
  /\ FetchValid(1)
  /\ FetchValid(2)
  /\ Order(graph) > Order(graphBefore) + 1

\* C35: while the element is not connected its graph and its renderer are
\* null, an initialization still in flight at the disconnection included.
C35_TornDownStaysNull ==
  ~element.connected =>
    /\ element.graph = NoGraph.instance
    /\ element.renderer = 0

\* The Sigma instances that were created and not killed.
Alive == {i \in 1..Len(element.sigmas) : element.sigmas[i].alive}

\* C36: over connections, disconnections and a reconnection while the first
\* initialization is still in flight, at most one renderer is alive, it is
\* the one the element's field refers to, and it is bound to the element's
\* current graph and container.
C36_OneLiveRenderer ==
  /\ Cardinality(Alive) <= 1
  /\ \A i \in Alive :
       /\ element.renderer = i
       /\ element.sigmas[i].graph = element.graph
       /\ element.sigmas[i].container = element.container

\* The fetch of the element's own file failed: a network rejection, a status
\* that is not OK, a body that is not JSON, or one isGraphGardenFile rejects.
SelfFetchFailed ==
  \/ element.fetched.kind = "rejects"
  \/ /\ element.fetched.kind = "responds"
     /\ \/ ~element.fetched.ok
        \/ ~element.fetched.body.json
        \/ ~IsGraphGardenFile(element.fetched.body)

\* C37: when the fetch of the element's own file fails, connectedCallback
\* ends there: no friend fetch is issued, graph and renderer stay null, and
\* the error is logged once and goes no further.
C37_SelfFetchFailureAbsorbed ==
  SelfFetchFailed =>
    /\ pc = "aborted"
    /\ fetchLog = << >>
    /\ element.graph = NoGraph.instance
    /\ element.renderer = 0
    /\ element.sigmas = << >>
    /\ Len(element.errors) = 1

\* The site answered 200 with a JSON body that isGraphGardenFile rejects:
\* one error logged, no graph.
C37_Witness ==
  /\ pc = "aborted"
  /\ element.fetched.kind = "responds"
  /\ element.fetched.ok
  /\ element.fetched.body.json
  /\ ~IsGraphGardenFile(element.fetched.body)
  /\ element.errors = << "fetched file does not match the GraphGarden protocol shape" >>
  /\ element.graph = NoGraph.instance

\* C38: a validated friend file with a URL that does not resolve is skipped
\* as a whole: merged first, it leaves the graph as the call received it, and
\* the file merged after it is merged in full.
C38_AllOrNothing ==
  /\ (/\ pc \in {"merging", "done"}
      /\ mergeIdx = 1
      /\ FetchValidated(1)
      /\ ~Resolvable(responses[1].body.content)) => graph = graphBefore
  /\ (/\ pc \in {"merging", "done"}
      /\ mergeIdx = 2
      /\ FetchValidated(1)
      /\ ~Resolvable(responses[1].body.content)
      /\ FetchValid(2)) =>
       /\ graph = MergeFriendFile(graphBefore, responses[2].body.content, Config)
       /\ NodesPresent(graph, responses[2].body.content)

\* C39: fetchFriendGraphs only grows the graph: no step of the call takes a
\* node or an edge away, order and size never decrease, and every node and
\* edge the call received is in the graph under its key during and after it.
C39_OnlyGrows ==
  /\ [](Called =>
          /\ DOMAIN graphBefore.nodes \subseteq DOMAIN graph.nodes
          /\ DOMAIN graphBefore.edges \subseteq DOMAIN graph.edges
          /\ Order(graph) >= Order(graphBefore)
          /\ Size(graph) >= Size(graphBefore))
  /\ [][(pc \in {"awaiting", "merging"}) =>
          /\ DOMAIN graph.nodes \subseteq DOMAIN graph'.nodes
          /\ DOMAIN graph.edges \subseteq DOMAIN graph'.edges
          /\ Order(graph') >= Order(graph)
          /\ Size(graph') >= Size(graph)]_vars

\* The call returned after a failed fetch and a merge that threw part-way:
\* the graph has more nodes than before and every earlier node and edge.
C39_Witness ==
  /\ pc = "done"
  /\ Len(origins) = 2
  /\ FetchFailed(1)
  /\ FetchValidated(2)
  /\ ~Resolvable(responses[2].body.content)
  /\ Order(graph) > Order(graphBefore)
  /\ Size(graphBefore) > 0
  /\ DOMAIN graphBefore.nodes \subseteq DOMAIN graph.nodes
  /\ DOMAIN graphBefore.edges \subseteq DOMAIN graph.edges

====
